---- MODULE Spec2Model ----
(***************************************************************************)
(* A model of the enhanced-context retrieval of the chat panel             *)
(* (getEnhancedContext, fuseContext, getPriorityContext and its helpers)   *)
(* and of FeatureFlagProvider.                                             *)
(*                                                                         *)
(* A context item is a record; its text is represented by its length in    *)
(* UTF-16 code units (the only thing fuseContext reads of it) together     *)
(* with its source tag, its position in the answer of the provider that    *)
(* produced it, so that two items are never confused, and the basename of  *)
(* its uri.                                                                *)
(***************************************************************************)
EXTENDS Integers, Sequences, FiniteSets, Bags, TLC

VARIABLES
    \* fuseContext called on its own
    keywordItems, embeddingsItems, maxChars, fused, fpc,
    \* the chat message and the editor, as getPriorityContext reads them
    text, editor,
    \* needsReadmeContext called on its own
    readmeNeeded, rpc,
    \* getPriorityContext
    retrievedContext, priorityContext, branch, readmeFetches, readmeFound, ppc,
    \* getEnhancedContext: its options, the provider calls it made, the list
    \* it builds, what it returned and where it stands
    opts, prov, searchContext, result, cpc,
    \* FeatureFlagProvider: its fields, apiClient.endpoint, the timers set, the
    \* requests in flight and the number of requests made; the registrations
    \* made through onFeatureFlagChanged and the callbacks the last step
    \* invoked. The field lastUpdated is kept as sinceUpdated, the value of
    \* Date.now() - this.lastUpdated, and a timer by the time left to it.
    featureFlags, sinceUpdated, subscriptions, nextRefreshTimeout, endpoint,
    timers, inflight, requests, regs, notified,
    \* what the last call of getFromCache or evaluateFeatureFlag returned, and
    \* whether the caller keeps what is returned
    returned, keepReturned,
    \* whether the global `window` exists where the provider runs (a browser
    \* or a webview has it, Node has not)
    hasWindow,
    \* whether process.env.BENCHMARK_DISABLE_FEATURE_FLAGS is set to a string
    \* that is not empty
    disableFeatureFlags,
    \* IgnoreHelper: its fields and the last call made to it with its outcome
    isActive, workspaceIgnores, lastCall

fuseVars == <<keywordItems, embeddingsItems, maxChars, fused, fpc>>
inputVars == <<text, editor>>
readmeVars == <<readmeNeeded, rpc>>
prioVars == <<retrievedContext, priorityContext, branch, readmeFetches, readmeFound, ppc>>

ctxVars == <<opts, prov, searchContext, result, cpc>>
ffVars == <<featureFlags, sinceUpdated, subscriptions, nextRefreshTimeout, endpoint,
            timers, inflight, requests, regs, notified, returned, keepReturned,
            hasWindow, disableFeatureFlags>>

ignVars == <<isActive, workspaceIgnores, lastCall>>

vars == <<fuseVars, inputVars, readmeVars, prioVars, ctxVars, ffVars, ignVars>>

\* ------------------------------------------------------------------ bounds

\* longest answer of one provider
MaxItems == 2
\* longest item text
MaxLen == 3
\* largest budget (hints.maxChars)
MaxChars == 5
\* longest message given to needsReadmeContext, in atoms
MaxQuery == 4
\* longest message given to getPriorityContext, in words
MaxWords == 3
\* most requests FeatureFlagProvider makes to the API
MaxRequests == 2

\* ------------------------------------------------------------- generalities

Range(s) == {s[i] : i \in 1..Len(s)}

\* the basename of a source file of the workspace, in atoms (see strings below)
MainUri == <<"main", ".", "ts">>

RECURSIVE SumLen(_)
\* total text length of a list of items
SumLen(items) ==
    IF items = <<>> THEN 0 ELSE Head(items).len + SumLen(Tail(items))

\* the lists a provider can answer: item i of provider src has a length 0..MaxLen
ItemLists(src) ==
    UNION {
        {[i \in 1..n |-> [source |-> src, idx |-> i, len |-> lens[i],
                          uri |-> MainUri]] :
            lens \in [1..n -> 0..MaxLen]} : n \in 0..MaxItems}

\* ------------------------------------------------------------------ strings
(***************************************************************************)
(* A string is a sequence of atoms; an atom is a run of characters of one  *)
(* class (word characters \w, white space \s, other) that the functions    *)
(* below never need to cut. lowerOf, lengthOf, isWord and isSpace give     *)
(* what toLowerCase, length and the classes \w and \s make of an atom.     *)
(***************************************************************************)

\* `undefined` where a string or a URI is expected: no string is this sequence
Undefined == <<"<undefined>">>

\* 89 dashes: punctuation that separates words and fills a message up
Filler ==
    "-----------------------------------------------------------------------------------------"

\* String.prototype.toLowerCase of an atom: the atoms with a capital letter,
\* those of the messages, of the file names and of the property names of
\* Object.prototype; every other atom is in lower case
lowerOf(a) ==
    CASE a = "Project" -> "project"
      [] a = "MyApp" -> "myapp"
      [] a = "This" -> "this"
      [] a = "What" -> "what"
      [] a = "How" -> "how"
      [] a = "Describe" -> "describe"
      [] a = "Explain" -> "explain"
      [] a = "Repository" -> "repository"
      [] a = "Repo" -> "repo"
      [] a = "Library" -> "library"
      [] a = "Package" -> "package"
      [] a = "Module" -> "module"
      [] a = "Codebase" -> "codebase"
      [] a = "Editor" -> "editor"
      [] a = "File" -> "file"
      [] a = "Open" -> "open"
      [] a = "Current" -> "current"
      [] a = "Entire" -> "entire"
      [] a = "Have" -> "have"
      [] a = "README" -> "readme"
      [] a = "Readme" -> "readme"
      [] a = "Constructor" -> "constructor"
      [] a = "hasOwnProperty" -> "hasownproperty"
      [] a = "isPrototypeOf" -> "isprototypeof"
      [] a = "propertyIsEnumerable" -> "propertyisenumerable"
      [] a = "toString" -> "tostring"
      [] a = "toLocaleString" -> "tolocalestring"
      [] a = "valueOf" -> "valueof"
      [] a = "__defineGetter__" -> "__definegetter__"
      [] a = "__defineSetter__" -> "__definesetter__"
      [] a = "__lookupGetter__" -> "__lookupgetter__"
      [] a = "__lookupSetter__" -> "__lookupsetter__"
      [] OTHER -> a

\* String.prototype.length of an atom: the number of its characters, which is
\* what Len gives of a string
lengthOf(a) == Len(a)

isSpace(a) == a = " "

\* \w: not white space, not punctuation
isWord(a) == a \notin {" ", "?", ".", Filler, ""}

\* String.prototype.toLowerCase
toLowerCase(str) == [i \in 1..Len(str) |-> lowerOf(str[i])]

RECURSIVE length(_)
\* String.prototype.length
length(str) == IF str = <<>> THEN 0 ELSE lengthOf(Head(str)) + length(Tail(str))

RECURSIVE trimStart(_)
trimStart(str) ==
    IF str # <<>> /\ isSpace(Head(str)) THEN trimStart(Tail(str)) ELSE str

RECURSIVE trimEnd(_)
trimEnd(str) ==
    IF str # <<>> /\ isSpace(str[Len(str)])
    THEN trimEnd(SubSeq(str, 1, Len(str) - 1)) ELSE str

\* String.prototype.trim
trim(str) == trimEnd(trimStart(str))

\* String.prototype.indexOf of a one-atom needle, counted in atoms from 1;
\* 0 when absent (-1 in the source)
indexOf(str, a) ==
    IF \E i \in 1..Len(str) : str[i] = a
    THEN CHOOSE i \in 1..Len(str) : str[i] = a /\ \A k \in 1..(i - 1) : str[k] # a
    ELSE 0

RECURSIVE splitWords(_, _)
\* input.split(/\W+/).filter(w => w.length > 0): the maximal runs of word
\* atoms, each run one word (a sequence of atoms); cur is the run being read
splitWords(str, cur) ==
    IF str = <<>> THEN (IF cur = <<>> THEN <<>> ELSE <<cur>>)
    ELSE IF isWord(Head(str)) THEN splitWords(Tail(str), Append(cur, Head(str)))
    ELSE (IF cur = <<>> THEN <<>> ELSE <<cur>>) \o splitWords(Tail(str), <<>>)

\* ------------------------------------------------------- needsReadmeContext

\* part_001:450-460
extractQuestion(input0) ==
    LET input == trim(input0)
        q == indexOf(input, "?")
    IN IF q # 0 THEN trim(SubSeq(input, 1, q))
       ELSE IF length(input) < 100 THEN input
       ELSE Undefined

\* part_001:386-394
projectSignifiers ==
    {"project", "repository", "repo", "library", "package", "module", "codebase"}

\* part_001:395
questionIndicators == {"what", "how", "describe", "explain", "?"}

\* part_001:397-403: workspaceUri.toString().split('/').at(-1), lower-cased,
\* when there is a workspace root and its last segment is not empty. A URI is
\* the sequence of the segments of its string form between the slashes.
rootBaseSignifiers(ed) ==
    IF ed.workspaceRoot = Undefined THEN {}
    ELSE LET rootBase == ed.workspaceRoot[Len(ed.workspaceRoot)]
         IN IF rootBase # "" THEN {lowerOf(rootBase)} ELSE {}

\* part_001:405-419: bagOfWords[key] is truthy. bagOfWords is the plain object
\* Object.fromEntries makes (part_001:384), with the words as its own keys: a
\* word is compared whole, so a one-atom key is an own key when some run of
\* word atoms is that atom alone. A property name the object inherits from
\* Object.prototype, each with a truthy value, is found whether it is a word
\* of the input or not; the lookup is by the exact name, so a lower-cased key
\* finds constructor and __proto__ alone.
inBagOfWords(bagOfWords, key) ==
    LET ObjectPrototypeKeys ==
            {"constructor", "__proto__", "hasOwnProperty", "isPrototypeOf",
             "propertyIsEnumerable", "toString", "toLocaleString", "valueOf",
             "__defineGetter__", "__defineSetter__", "__lookupGetter__",
             "__lookupSetter__"}
    IN <<key>> \in bagOfWords \/ key \in ObjectPrototypeKeys

\* part_001:375-422
needsReadmeContext(ed, input0) ==
    LET input == toLowerCase(input0)
        question == extractQuestion(input)
        bagOfWords == Range(splitWords(input, <<>>))
    IN IF question = Undefined \/ question = <<>> THEN FALSE
       ELSE /\ \E q \in questionIndicators : inBagOfWords(bagOfWords, q)
            /\ \E p \in projectSignifiers \cup rootBaseSignifiers(ed) :
                inBagOfWords(bagOfWords, p)

\* ------------------------------------------------------- getPriorityContext

\* str.startsWith(prefix)
startsWith(str, prefix) ==
    Len(prefix) <= Len(str) /\ SubSeq(str, 1, Len(prefix)) = prefix

\* a match of  first \s+ last  starting at atom i, where `first` is one atom of
\* firstSet optionally followed by the atoms of opt
matchesSpaced(str, firstSet, opt, last) ==
    \E i \in 1..Len(str) : \E o \in {0, Len(opt)} : \E j \in (i + o + 2)..Len(str) :
        /\ str[i] \in firstSet
        /\ SubSeq(str, i + 1, i + o) = SubSeq(opt, 1, o)
        /\ \A k \in (i + o + 1)..(j - 1) : isSpace(str[k])
        /\ str[j] = last

\* part_001:281-286 (userAttentionRegexps) and part_001:363-373
needsUserAttentionContext(input) ==
    LET inputLowerCase == toLowerCase(input)
    IN \/ \E i \in 1..Len(inputLowerCase) : inputLowerCase[i] = "editor"
       \/ matchesSpaced(inputLowerCase, {"open", "current", "this", "entire"}, <<>>, "file")
       \/ matchesSpaced(inputLowerCase, {"current"}, <<"ly">>, "open")
       \/ matchesSpaced(inputLowerCase, {"have"}, <<>>, "open")

\* selection.fileUri: the basename of the file of the active editor
SelectionUri == <<"main", ".", "ts">>

\* part_001:288-311. editor.selectedText is Undefined when
\* getActiveTextEditorSelection() is null, else the selected text.
getCurrentSelectionContext(ed) ==
    IF ed.selectedText = Undefined \/ ed.selectedText = <<>> THEN <<>>
    ELSE <<[source |-> "selection", idx |-> 1, len |-> length(ed.selectedText),
            uri |-> SelectionUri]>>

getVisibleEditorContext_noTrim(ed) ==
    IF ed.visibleContent = Undefined \/ ed.visibleFileUri = Undefined THEN <<>>
    ELSE IF ed.visibleContent = <<>> THEN <<>>
    ELSE <<[source |-> "editor", idx |-> 1, len |-> length(ed.visibleContent),
            uri |-> ed.visibleFileUri]>>

\* part_001:313-329. editor.visibleContent is Undefined when
\* getActiveTextEditorVisibleContent() is null; editor.visibleFileUri is
\* Undefined when it has no fileUri.
getVisibleEditorContext(ed) ==
    IF ed.visibleContent = Undefined \/ ed.visibleFileUri = Undefined THEN <<>>
    ELSE IF trim(ed.visibleContent) = <<>> THEN <<>>
    ELSE <<[source |-> "editor", idx |-> 1, len |-> length(ed.visibleContent),
            uri |-> ed.visibleFileUri]>>

containsREADME_exact(retrieved) ==
    \E i \in 1..Len(retrieved) : toLowerCase(retrieved[i].uri) = <<"readme">>

\* part_001:345-355: uriBasename(contextItem.uri), lower-cased, is `readme`
\* or starts with `readme.`
containsREADME(retrieved) ==
    \E i \in 1..Len(retrieved) :
        LET basename == toLowerCase(retrieved[i].uri)
        IN basename = <<"readme">> \/ startsWith(basename, <<"readme", ".">>)

getPriorityBranch_readmeFirst(inputText, ed) ==
    IF needsReadmeContext(ed, inputText) THEN "readme"
    ELSE IF getCurrentSelectionContext(ed) # <<>> THEN "selection"
    ELSE IF needsUserAttentionContext(inputText) THEN "attention"
    ELSE "none"

getPriorityBranch_attentionFirst(inputText, ed) ==
    IF needsUserAttentionContext(inputText) THEN "attention"
    ELSE IF getCurrentSelectionContext(ed) # <<>> THEN "selection"
    ELSE IF needsReadmeContext(ed, inputText) THEN "readme"
    ELSE "none"

\* part_001:337-343: which arm of the if / else if chain is entered
getPriorityBranch(inputText, ed) ==
    IF getCurrentSelectionContext(ed) # <<>> THEN "selection"
    ELSE IF needsUserAttentionContext(inputText) THEN "attention"
    ELSE IF needsReadmeContext(ed, inputText) THEN "readme"
    ELSE "none"

\* part_001:426-428: findFiles answers no file
NoReadme == <<Undefined, 0>>

\* part_001:423-448: what getReadmeContext makes of the workspace. found is
\* what findFiles(readmeGlobalPattern, undefined, 1) answered (Undefined: no
\* file), truncatedLength the length of the text truncateTextNearestLine left.
getReadmeContext(found, truncatedLength) ==
    IF found = Undefined THEN <<>>
    ELSE IF truncatedLength = 0 THEN <<>>
    ELSE <<[source |-> "editor", idx |-> 1, len |-> truncatedLength, uri |-> found]>>

\* ------------------------------------------------------------- fuseContext

\* part_001:483. The cap is kept multiplied by 5 so that maxChars * 0.8 stays
\* an integer: for an integer maxChars, charsUsed + len <= maxChars * 0.8 in
\* IEEE doubles is 5 * (charsUsed + len) <= 4 * maxChars.
maxKeywordChars_noCap(emb, mc) == 5 * mc

maxKeywordChars(emb, mc) == IF Len(emb) > 0 THEN 4 * mc ELSE 5 * mc

RECURSIVE FuseLoop_break(_, _, _)
FuseLoop_break(items, cap5, acc) ==
    IF items = <<>> THEN acc
    ELSE LET item == Head(items)
             len == item.len
         IN IF 5 * (acc.charsUsed + len) <= cap5
            THEN FuseLoop_break(Tail(items), cap5,
                     [charsUsed |-> acc.charsUsed + len,
                      fused |-> Append(acc.fused, item)])
            ELSE acc

RECURSIVE FuseLoop(_, _, _)
\* part_001:485-492 and 494-501: one `for` loop of fuseContext, over `items`,
\* against a cap (times 5), continuing from the running charsUsed and fused.
FuseLoop(items, cap5, acc) ==
    IF items = <<>> THEN acc
    ELSE LET item == Head(items)
             len == item.len
         IN IF 5 * (acc.charsUsed + len) <= cap5
            THEN FuseLoop(Tail(items), cap5,
                     [charsUsed |-> acc.charsUsed + len,
                      fused |-> Append(acc.fused, item)])
            ELSE FuseLoop(Tail(items), cap5, acc)

fuseContext_freshBudget(kw, emb, mc) ==
    LET afterKeyword == FuseLoop(kw, maxKeywordChars(emb, mc),
                                 [charsUsed |-> 0, fused |-> <<>>])
    IN FuseLoop(emb, 5 * mc, [charsUsed |-> 0, fused |-> afterKeyword.fused]).fused

\* part_001:476-504
fuseContext(kw, emb, mc) ==
    LET afterKeyword == FuseLoop(kw, maxKeywordChars(emb, mc),
                                 [charsUsed |-> 0, fused |-> <<>>])
    IN FuseLoop(emb, 5 * mc, afterKeyword).fused

\* ------------------------------------------------------- getEnhancedContext
(***************************************************************************)
(* A provider call is a record: st is "idle" (not made), "skipped" (the    *)
(* strategy left the provider out: a plain [] stands for the promise),     *)
(* "status" (searchSymf waits for symf.getIndexStatus), "pending" (the     *)
(* search query is in flight), "resolved" or "rejected"; items is what it  *)
(* resolved with and raw what the search engine answered; calls counts the *)
(* search queries issued to the provider (getContext, getResults, query)   *)
(* and probes the getIndexStatus calls. searchSymf goes on from "pending"  *)
(* through "inner" (it waits for the results of the workspace root),       *)
(* "reading" (it waits for the text of each result: reads holds, result by *)
(* result, "pending", "text" or "none") and "gathered" (the texts are in,  *)
(* it waits for the results of all roots).                                 *)
(***************************************************************************)

Providers == {"emb", "symf", "remote"}

\* part_001:275, 227, 170: the source tag of a provider's items
sourceOf(p) ==
    CASE p = "emb" -> "embeddings" [] p = "symf" -> "search" [] p = "remote" -> "unified"

Settled(call) == call.st \in {"skipped", "resolved", "rejected"}

Skipped == [st |-> "skipped", items |-> <<>>, raw |-> <<>>, reads |-> <<>>, calls |-> 0,
            probes |-> 0]

\* isFileURI(uri): the scheme is `file`
isFileURI(uri) == uri[1] = "file:"

\* part_001:253-263: searchEmbeddingsLocal up to its await
searchEmbeddingsLocal(o, call) ==
    IF ~o.localEmbeddings THEN [call EXCEPT !.st = "resolved", !.items = <<>>]
    ELSE [call EXCEPT !.st = "pending", !.calls = @ + 1]

\* part_001:181-195: searchSymf up to its first await
searchSymf(o, ed, call) ==
    IF ~o.symf THEN [call EXCEPT !.st = "resolved", !.items = <<>>]
    ELSE IF ed.workspaceRoot = Undefined \/ ~isFileURI(ed.workspaceRoot)
    THEN [call EXCEPT !.st = "resolved", !.items = <<>>]
    ELSE [call EXCEPT !.st = "status", !.probes = @ + 1]

searchRemote_notCalled(o, call) == call

\* part_001:158-165: searchRemote up to its await
searchRemote(o, call) ==
    IF ~o.remoteSearch THEN [call EXCEPT !.st = "resolved", !.items = <<>>]
    ELSE [call EXCEPT !.st = "pending", !.calls = @ + 1]

retrieveContextGracefully_rethrow(call) ==
    [ok |-> call.st # "rejected", items |-> call.items]

\* part_001:462-472: what awaiting the wrapped promise gives; ok is FALSE
\* when the await throws
retrieveContextGracefully(call) ==
    IF call.st = "rejected" THEN [ok |-> TRUE, items |-> <<>>]
    ELSE [ok |-> TRUE, items |-> call.items]

\* part_001:73-79, 86-91, 94-99: try { searchContext.push(...(await call)) }
\* catch { logDebug }
tryPush(list, call) ==
    IF call.st = "rejected" THEN [ok |-> TRUE, list |-> list]
    ELSE [ok |-> TRUE, list |-> list \o call.items]

afterEmbeddings_anyStrategy(o, ed, pr) ==
    IF o.remoteSearch
    THEN [prov |-> [pr EXCEPT !["remote"] = searchRemote(o, @)], cpc |-> "awaitRemote"]
    ELSE IF o.symf
    THEN [prov |-> [pr EXCEPT !["symf"] = searchSymf(o, ed, @)], cpc |-> "awaitSymf"]
    ELSE [prov |-> pr, cpc |-> "priority"]

\* part_001:83-102: from the end of the embeddings stage to the next await of
\* the sequential (not fused) path: the remote search, else symf, else the
\* priority context
afterEmbeddings(o, ed, pr) ==
    IF o.strategy # "embeddings" /\ o.remoteSearch
    THEN [prov |-> [pr EXCEPT !["remote"] = searchRemote(o, @)], cpc |-> "awaitRemote"]
    ELSE IF o.strategy # "embeddings" /\ o.symf
    THEN [prov |-> [pr EXCEPT !["symf"] = searchSymf(o, ed, @)], cpc |-> "awaitSymf"]
    ELSE [prov |-> pr, cpc |-> "priority"]

\* part_001:93-102
afterRemote(o, ed, pr) ==
    IF o.symf
    THEN [prov |-> [pr EXCEPT !["symf"] = searchSymf(o, ed, @)], cpc |-> "awaitSymf"]
    ELSE [prov |-> pr, cpc |-> "priority"]

\* part_001:104, 154: getPriorityContext(text, editor, list) is called
EnterPriority(next, list) ==
    IF next = "priority"
    THEN /\ retrievedContext' = list
         /\ ppc' = "call"
         /\ UNCHANGED <<priorityContext, branch, readmeFetches, readmeFound>>
    ELSE UNCHANGED prioVars

\* part_001:49-66 and 108-119 (strategy none), 68-72 (sequential path: the
\* embeddings query), 121-141 (fused path: every query is issued, then the
\* remote search is awaited)
CtxStart ==
    /\ cpc = "start"
    /\ IF opts.strategy = "none"
       THEN /\ result' = getVisibleEditorContext(editor)
            /\ cpc' = "done"
            /\ UNCHANGED <<prov, searchContext, prioVars>>
       ELSE IF opts.internalUnstable
       THEN /\ prov' =
                [emb |-> IF opts.strategy # "keyword"
                         THEN searchEmbeddingsLocal(opts, prov["emb"]) ELSE Skipped,
                 symf |-> IF opts.symf /\ opts.strategy # "embeddings"
                          THEN searchSymf(opts, editor, prov["symf"]) ELSE Skipped,
                 remote |-> IF opts.remoteSearch /\ opts.strategy # "embeddings"
                            THEN searchRemote(opts, prov["remote"]) ELSE Skipped]
            /\ cpc' = IF opts.remoteSearch /\ opts.strategy # "embeddings"
                      THEN "awaitRemote" ELSE "join"
            /\ UNCHANGED <<searchContext, result, prioVars>>
       ELSE IF opts.strategy # "keyword"
       THEN /\ prov' = [prov EXCEPT !["emb"] = searchEmbeddingsLocal(opts, @)]
            /\ cpc' = "awaitEmb"
            /\ UNCHANGED <<searchContext, result, prioVars>>
       ELSE LET nxt == afterEmbeddings(opts, editor, prov)
            IN /\ prov' = nxt.prov
               /\ cpc' = nxt.cpc
               /\ EnterPriority(nxt.cpc, searchContext)
               /\ UNCHANGED <<searchContext, result>>
    /\ UNCHANGED <<opts, fuseVars, inputVars, readmeVars, ffVars, ignVars>>

\* the answers a provider can give: item i has a length that depends on the
\* provider and on i
ProviderItem(p, i) ==
    [source |-> sourceOf(p), idx |-> i,
     len |-> 1 + ((i + (CHOOSE k \in 0..2 : <<"emb", "symf", "remote">>[k + 1] = p)) % MaxLen),
     uri |-> MainUri]

\* the answers of a search engine: the first n items of the provider, and for
\* symf also in the opposite order
Answers(p) ==
    {[i \in 1..n |-> ProviderItem(p, i)] : n \in 0..MaxItems}
        \cup (IF p = "symf"
              THEN {[i \in 1..n |-> ProviderItem(p, n + 1 - i)] : n \in 0..MaxItems}
              ELSE {})

\* a.uri.fsPath.localeCompare(b.uri.fsPath) and a.text.localeCompare(b.text)
\* compare ranks here: the items of a provider are numbered in the order of
\* their texts, two of them to a file; the files of the remote search come
\* before those of symf
fsPathRank(item) == (IF item.source = "unified" THEN 0 ELSE MaxItems + 1) + (item.idx + 1) \div 2

textRank(item) == item.idx

\* part_001:241-247: the comparator, negative when a goes first
compareItems(a, b) ==
    LET byUri == fsPathRank(a) - fsPathRank(b)
    IN IF byUri # 0 THEN byUri ELSE textRank(a) - textRank(b)

RECURSIVE insertSorted(_, _)
\* item put into a sorted list, after the items it does not go before
insertSorted(item, sorted) ==
    IF sorted = <<>> THEN <<item>>
    ELSE IF compareItems(item, Head(sorted)) < 0 THEN <<item>> \o sorted
    ELSE <<Head(sorted)>> \o insertSorted(item, Tail(sorted))

RECURSIVE sortItems(_)
\* Array.prototype.sort with compareItems: a stable sort
sortItems(items) ==
    IF items = <<>> THEN <<>>
    ELSE insertSorted(items[Len(items)], sortItems(SubSeq(items, 1, Len(items) - 1)))

searchSymfResults_unsorted(o, allResults) == allResults

\* part_001:235-250: what searchSymf returns of the results it has read
searchSymfResults(o, allResults) ==
    IF o.isAgentTesting THEN sortItems(allResults) ELSE allResults

\* part_001:195-199: symf.getIndexStatus answers; when the index is ready
\* symf.getResults is called, else ensureIndex is triggered and the search
\* gives nothing
SymfStatus ==
    /\ prov["symf"].st = "status"
    /\ \E answer \in {"ready", "other", "error"} :
        prov' = [prov EXCEPT !["symf"] =
                    CASE answer = "ready" -> [@ EXCEPT !.st = "pending", !.calls = @ + 1]
                      [] answer = "other" -> [@ EXCEPT !.st = "resolved", !.items = <<>>]
                      [] answer = "error" -> [@ EXCEPT !.st = "rejected"]]
    /\ UNCHANGED <<opts, searchContext, result, cpc, fuseVars, inputVars, readmeVars,
                   prioVars, ffVars, ignVars>>

\* part_001:201: symf.getResults answers the results of the workspace root, a
\* promise searchSymf awaits next, or rejects
SymfResults ==
    /\ prov["symf"].st = "pending"
    /\ \/ \E results \in Answers("symf") :
            prov' = [prov EXCEPT !["symf"] = [@ EXCEPT !.st = "inner", !.raw = results]]
       \/ prov' = [prov EXCEPT !["symf"] = [@ EXCEPT !.st = "rejected"]]
    /\ UNCHANGED <<opts, searchContext, result, cpc, fuseVars, inputVars, readmeVars,
                   prioVars, ffVars, ignVars>>

\* part_001:202-213: the results of the workspace root are in, and
\* editor.getTextEditorContentForFile is called for each of them; or the
\* promise of the results rejects
SymfInner ==
    /\ prov["symf"].st = "inner"
    /\ \/ prov' = [prov EXCEPT !["symf"] =
                    [@ EXCEPT !.st = "reading",
                              !.reads = [i \in 1..Len(prov["symf"].raw) |-> "pending"]]]
       \/ prov' = [prov EXCEPT !["symf"] = [@ EXCEPT !.st = "rejected"]]
    /\ UNCHANGED <<opts, searchContext, result, cpc, fuseVars, inputVars, readmeVars,
                   prioVars, ffVars, ignVars>>

\* part_001:211-230: the text of result i is read ("text"), or it is empty or
\* the read throws and the result is dropped ("none")
SymfRead(i) ==
    /\ prov["symf"].st = "reading"
    /\ i \in 1..Len(prov["symf"].reads)
    /\ prov["symf"].reads[i] = "pending"
    /\ \E answer \in {"text", "none"} :
        prov' = [prov EXCEPT !["symf"].reads[i] = answer]
    /\ UNCHANGED <<opts, searchContext, result, cpc, fuseVars, inputVars, readmeVars,
                   prioVars, ffVars, ignVars>>

\* part_001:232: Promise.all(items) resolves once every text has been read
SymfGathered ==
    /\ prov["symf"].st = "reading"
    /\ \A i \in 1..Len(prov["symf"].reads) : prov["symf"].reads[i] # "pending"
    /\ prov' = [prov EXCEPT !["symf"].st = "gathered"]
    /\ UNCHANGED <<opts, searchContext, result, cpc, fuseVars, inputVars, readmeVars,
                   prioVars, ffVars, ignVars>>

\* part_001:232: the results whose text was read, in the order symf gave them
readResults(raw, reads) ==
    LET kept == SelectSeq([i \in 1..Len(raw) |-> [item |-> raw[i], read |-> reads[i]]],
                          LAMBDA e : e.read = "text")
    IN [i \in 1..Len(kept) |-> kept[i].item]

\* part_001:235-250: Promise.all(r0) resolves and searchSymf returns the
\* results read, sorted when CODY_SHIM_TESTING is set
SymfSettle ==
    /\ prov["symf"].st = "gathered"
    /\ prov' = [prov EXCEPT !["symf"] =
                    [@ EXCEPT !.st = "resolved",
                              !.items =
                                  searchSymfResults(opts,
                                      readResults(prov["symf"].raw, prov["symf"].reads))]]
    /\ UNCHANGED <<opts, searchContext, result, cpc, fuseVars, inputVars, readmeVars,
                   prioVars, ffVars, ignVars>>

\* part_001:263-280 and 164-175: the search query of the embeddings or of the
\* remote search resolves with its items or rejects
ProviderSettle(p) ==
    /\ p \in {"emb", "remote"}
    /\ prov[p].st = "pending"
    /\ \/ \E items \in Answers(p) :
            prov' = [prov EXCEPT ![p] =
                        [@ EXCEPT !.st = "resolved", !.raw = items, !.items = items]]
       \/ prov' = [prov EXCEPT ![p] = [@ EXCEPT !.st = "rejected"]]
    /\ UNCHANGED <<opts, searchContext, result, cpc, fuseVars, inputVars, readmeVars,
                   prioVars, ffVars, ignVars>>

\* part_001:73-81: the sequential path has awaited the embeddings
CtxAfterEmb ==
    /\ cpc = "awaitEmb"
    /\ Settled(prov["emb"])
    /\ LET pushed == tryPush(searchContext, prov["emb"])
           nxt == afterEmbeddings(opts, editor, prov)
       IN IF ~pushed.ok
          THEN cpc' = "rejected" /\ UNCHANGED <<prov, searchContext, prioVars>>
          ELSE /\ searchContext' = pushed.list
               /\ prov' = nxt.prov
               /\ cpc' = nxt.cpc
               /\ EnterPriority(nxt.cpc, pushed.list)
    /\ UNCHANGED <<opts, result, fuseVars, inputVars, readmeVars, ffVars, ignVars>>

\* part_001:86-92 (sequential path) and 135-141 (fused path): the remote search
\* has been awaited
CtxAfterRemote ==
    /\ cpc = "awaitRemote"
    /\ Settled(prov["remote"])
    /\ IF opts.internalUnstable
       THEN /\ cpc' = IF retrieveContextGracefully(prov["remote"]).ok
                      THEN "join" ELSE "rejected"
            /\ UNCHANGED <<prov, searchContext, prioVars>>
       ELSE LET pushed == tryPush(searchContext, prov["remote"])
                nxt == afterRemote(opts, editor, prov)
            IN IF ~pushed.ok
               THEN cpc' = "rejected" /\ UNCHANGED <<prov, searchContext, prioVars>>
               ELSE /\ searchContext' = pushed.list
                    /\ prov' = nxt.prov
                    /\ cpc' = nxt.cpc
                    /\ EnterPriority(nxt.cpc, pushed.list)
    /\ UNCHANGED <<opts, result, fuseVars, inputVars, readmeVars, ffVars, ignVars>>

\* part_001:94-102: the sequential path has awaited symf
CtxAfterSymf ==
    /\ cpc = "awaitSymf"
    /\ Settled(prov["symf"])
    /\ LET pushed == tryPush(searchContext, prov["symf"])
       IN IF ~pushed.ok
          THEN cpc' = "rejected" /\ UNCHANGED <<searchContext, prioVars>>
          ELSE /\ searchContext' = pushed.list
               /\ cpc' = "priority"
               /\ EnterPriority("priority", pushed.list)
    /\ UNCHANGED <<opts, prov, result, fuseVars, inputVars, readmeVars, ffVars, ignVars>>

CtxJoin_remoteFirst ==
    /\ cpc = "join"
    /\ \A p \in Providers : Settled(prov[p])
    /\ LET embeddingsContextItems == retrieveContextGracefully(prov["emb"])
           localSearchContextItems == retrieveContextGracefully(prov["symf"])
           remoteSearchContextItems == retrieveContextGracefully(prov["remote"])
           keywordContextItems ==
               remoteSearchContextItems.items \o localSearchContextItems.items
           fusedContext ==
               fuseContext(keywordContextItems, embeddingsContextItems.items,
                           opts.maxChars)
       IN IF ~(embeddingsContextItems.ok /\ localSearchContextItems.ok
                /\ remoteSearchContextItems.ok)
          THEN cpc' = "rejected" /\ UNCHANGED <<searchContext, prioVars>>
          ELSE /\ searchContext' = fusedContext
               /\ cpc' = "priority"
               /\ EnterPriority("priority", fusedContext)
    /\ UNCHANGED <<opts, prov, result, fuseVars, inputVars, readmeVars, ffVars, ignVars>>

\* part_001:142-154: the fused path joins the embeddings and the keyword
\* promises, fuses them and calls getPriorityContext
CtxJoin ==
    /\ cpc = "join"
    /\ \A p \in Providers : Settled(prov[p])
    /\ LET embeddingsContextItems == retrieveContextGracefully(prov["emb"])
           localSearchContextItems == retrieveContextGracefully(prov["symf"])
           remoteSearchContextItems == retrieveContextGracefully(prov["remote"])
           keywordContextItems ==
               localSearchContextItems.items \o remoteSearchContextItems.items
           fusedContext ==
               fuseContext(keywordContextItems, embeddingsContextItems.items,
                           opts.maxChars)
       IN IF ~(embeddingsContextItems.ok /\ localSearchContextItems.ok
                /\ remoteSearchContextItems.ok)
          THEN cpc' = "rejected" /\ UNCHANGED <<searchContext, prioVars>>
          ELSE /\ searchContext' = fusedContext
               /\ cpc' = "priority"
               /\ EnterPriority("priority", fusedContext)
    /\ UNCHANGED <<opts, prov, result, fuseVars, inputVars, readmeVars, ffVars, ignVars>>

CtxReturn_priorityLast ==
    /\ cpc = "priority"
    /\ ppc = "done"
    /\ result' = searchContext \o priorityContext
    /\ cpc' = "done"
    /\ UNCHANGED <<opts, prov, searchContext, fuseVars, inputVars, readmeVars, prioVars,
                   ffVars, ignVars>>

\* part_001:104 and 154: getPriorityContext has rejected, and the await
\* rejects getEnhancedContext
CtxPriorityRejected ==
    /\ cpc = "priority"
    /\ ppc = "rejected"
    /\ cpc' = "rejected"
    /\ UNCHANGED <<opts, prov, searchContext, result, fuseVars, inputVars, readmeVars,
                   prioVars, ffVars, ignVars>>

\* part_001:104-105 and 154-155: getPriorityContext has resolved
CtxReturn ==
    /\ cpc = "priority"
    /\ ppc = "done"
    /\ result' = priorityContext \o searchContext
    /\ cpc' = "done"
    /\ UNCHANGED <<opts, prov, searchContext, fuseVars, inputVars, readmeVars, prioVars,
                   ffVars, ignVars>>

\* ------------------------------------------------------ FeatureFlagProvider
(***************************************************************************)
(* A string that may hold `#` is the sequence of its segments between the  *)
(* `#`s, each segment a sequence of atoms: a + '#' + b is a \o b and        *)
(* s.split('#')[i - 1] is s[i]. An endpoint and a flag name hold no `#`.    *)
(* A flag set (a value of featureFlags, a JSON snapshot) is a record:      *)
(* defined is FALSE for `undefined` (for the snapshot '') and flags is the *)
(* sequence of the object's entries in insertion order, the order          *)
(* Object.keys and JSON.stringify follow.                                  *)
(***************************************************************************)

\* FeatureFlagProvider.ts:48
ONE_HOUR == 60 * 60 * 1000

\* Date.now() - this.lastUpdated is only compared with ONE_HOUR: every value
\* above ONE_HOUR is kept as this one
LongAgo == 2 * ONE_HOUR

Endpoints == {<<<<"e1">>>>, <<<<"e2">>>>}

FlagNames == {<<"a", "1">>, <<"b", "1">>}

\* the prefix filters subscribed to: "a" and ""
Prefixes == {<<<<"a">>>>, <<<<>>>>}

NoFlags == [defined |-> FALSE, flags |-> <<>>]

EmptyFlags == [defined |-> TRUE, flags |-> <<>>]

\* this.featureFlags[key] for any string key
flagsAt(ff, key) == IF key \in Endpoints THEN ff[key] ELSE NoFlags

\* featureFlags[flagName] !== undefined
hasFlag(fl, name) == \E i \in 1..Len(fl.flags) : fl.flags[i].name = name

\* featureFlags[flagName], when it is defined
flagValue(fl, name) == (CHOOSE e \in Range(fl.flags) : e.name = name).value

\* featureFlags[flagName] = value: an existing key keeps its place, a new one
\* goes last
setFlag(fl, name, value) ==
    IF \E i \in 1..Len(fl.flags) : fl.flags[i].name = name
    THEN [fl EXCEPT !.flags =
            [i \in 1..Len(fl.flags) |->
                IF fl.flags[i].name = name THEN [name |-> name, value |-> value]
                ELSE fl.flags[i]]]
    ELSE [fl EXCEPT !.flags = Append(@, [name |-> name, value |-> value])]

\* key.startsWith(prefixFilter) for a flag name and a string that may hold `#`
\* (no flag name starts with `undefined`, what an undefined filter is read as)
nameStartsWith(name, prefixFilter) ==
    /\ prefixFilter # Undefined
    /\ Len(prefixFilter) = 1
    /\ startsWith(name, prefixFilter[1])

\* FeatureFlagProvider.ts:178-190
computeFeatureFlagSnapshot(ff, endpointKey, prefixFilter) ==
    LET fl == flagsAt(ff, endpointKey)
    IN IF ~fl.defined THEN NoFlags
       ELSE [defined |-> TRUE,
             flags |-> SelectSeq(fl.flags, LAMBDA e : nameStartsWith(e.name, prefixFilter))]

\* key[0].split('#')[0] and key[0].split('#')[1]
splitEndpoint(key) == <<key[1]>>

splitPrefix(key) == IF Len(key) >= 2 THEN <<key[2]>> ELSE Undefined

\* FeatureFlagProvider.ts:162-176: the subscriptions after the notification
notifiedSubscriptions(ff, subs) ==
    [key \in DOMAIN subs |->
        LET currentSnapshot ==
                computeFeatureFlagSnapshot(ff, splitEndpoint(key), splitPrefix(key))
        IN IF currentSnapshot # subs[key].lastSnapshot
           THEN [subs[key] EXCEPT !.lastSnapshot = currentSnapshot]
           ELSE subs[key]]

\* FeatureFlagProvider.ts:162-176: the callbacks the notification invokes
notifiedCallbacks(ff, subs) ==
    UNION {IF computeFeatureFlagSnapshot(ff, splitEndpoint(key), splitPrefix(key))
                # subs[key].lastSnapshot
           THEN subs[key].callbacks ELSE {} : key \in DOMAIN subs}

\* the functions given to onFeatureFlagChanged as callback, each given once,
\* in this order
CallbackOrder == <<"f", "g">>

Callbacks == Range(CallbackOrder)

\* a callback not given to onFeatureFlagChanged yet
NoReg == [made |-> FALSE, active |-> FALSE, endpoint |-> <<>>, prefix |-> <<>>,
          key |-> <<>>, kind |-> "none", obj |-> "none", seen |-> NoFlags]

\* the registrations after a notification: each has seen the serialization of
\* the flags of its own endpoint and prefix
seenAfter(ff, rs) ==
    [c \in Callbacks |->
        IF rs[c].active
        THEN [rs[c] EXCEPT !.seen = computeFeatureFlagSnapshot(ff, rs[c].endpoint, rs[c].prefix)]
        ELSE rs[c]]

Quiet == [done |-> FALSE, fired |-> {}]

\* the smallest timer handle not in use
freshTimer == CHOOSE id \in 1..(Cardinality(timers) + 2) :
                 id # nextRefreshTimeout /\ \A t \in timers : t.id # id

clearTimeout_noop(ts, handle) == ts

\* clearTimeout(handle)
clearTimeout(ts, handle) == {t \in ts : t.id # handle}

\* a request as apiClient sends it now: to the current endpoint, with the
\* current credentials; sync tells that syncAuthStatus awaits the answer
request(op, flagName, sync) ==
    [op |-> op, endpoint |-> endpoint, flag |-> flagName, auth |-> "current",
     sync |-> sync]

\* the requests in flight once the auth status has changed: each was sent with
\* the previous credentials
sentBefore(fl) ==
    LET previous(r) == [r EXCEPT !.auth = "previous"]
    IN [o \in {previous(r) : r \in BagToSet(fl)} |->
            CopiesIn(o, fl) + CopiesIn([o EXCEPT !.auth = "current"], fl)]

\* this.refreshFeatureFlags() up to its await (FeatureFlagProvider.ts:103-105)
startRefresh(fl) ==
    fl (+) SetToBag({request("refresh", <<>>, FALSE)})

getFromCacheRefresh_atOneHour(fl) ==
    IF sinceUpdated >= ONE_HOUR THEN startRefresh(fl) ELSE fl

\* FeatureFlagProvider.ts:65-76, the value returned left aside: a refresh is
\* started when the cache is older than one hour
getFromCacheRefresh(fl) ==
    IF sinceUpdated > ONE_HOUR THEN startRefresh(fl) ELSE fl

\* no value kept from a call
NoReturn == [op |-> "none", flag |-> <<>>, endpoint |-> <<>>, value |-> "none",
             answer |-> "none"]

\* the value a call returned, as the caller keeps it, with the answer of the
\* remote evaluation the call awaited ("none" when it awaited none)
kept(op, flagName, endpointArg, value, answer) ==
    IF keepReturned
    THEN [op |-> op, flag |-> flagName, endpoint |-> endpointArg, value |-> value,
          answer |-> answer]
    ELSE NoReturn

\* FeatureFlagProvider.ts:75: this.featureFlags[endpoint]?.[flagName]
cachedValue(ff, endpointArg, flagName) ==
    IF ~hasFlag(flagsAt(ff, endpointArg), flagName) THEN "undefined"
    ELSE IF flagValue(flagsAt(ff, endpointArg), flagName) THEN "true" ELSE "false"

\* FeatureFlagProvider.ts:65-76: getFromCache(flagName, endpointArg); the
\* default of endpointArg is apiClient.endpoint
GetFromCache(flagName, endpointArg) ==
    /\ sinceUpdated > ONE_HOUR => requests < MaxRequests
    /\ inflight' = getFromCacheRefresh(inflight)
    /\ requests' = requests + BagCardinality(inflight') - BagCardinality(inflight)
    /\ notified' = Quiet
    /\ returned' = kept("getFromCache", flagName, endpointArg,
                        cachedValue(featureFlags, endpointArg, flagName), "none")
    /\ UNCHANGED <<featureFlags, sinceUpdated, subscriptions, nextRefreshTimeout,
                   endpoint, timers, regs>>
    /\ UNCHANGED <<hasWindow, keepReturned, disableFeatureFlags, fuseVars, inputVars,
                   readmeVars, prioVars, ctxVars, ignVars>>

EvaluateFeatureFlag_alwaysRemote(flagName) ==
    /\ inflight' = IF disableFeatureFlags THEN inflight
                   ELSE getFromCacheRefresh(inflight)
                            (+) SetToBag({request("evaluate", flagName, FALSE)})
    /\ requests' = requests + BagCardinality(inflight') - BagCardinality(inflight)
    /\ requests' <= MaxRequests
    /\ notified' = Quiet
    /\ returned' = IF disableFeatureFlags
                   THEN kept("evaluateFeatureFlag", flagName, endpoint, "false", "none")
                   ELSE NoReturn
    /\ UNCHANGED <<featureFlags, sinceUpdated, subscriptions, nextRefreshTimeout,
                   endpoint, timers, regs>>
    /\ UNCHANGED <<hasWindow, keepReturned, disableFeatureFlags, fuseVars, inputVars,
                   readmeVars, prioVars, ctxVars, ignVars>>

\* FeatureFlagProvider.ts:78-89: evaluateFeatureFlag up to its await. With
\* BENCHMARK_DISABLE_FEATURE_FLAGS set it returns false (80-82): the cache is
\* not read, so no refresh is started, and nothing is evaluated.
EvaluateFeatureFlag(flagName) ==
    /\ LET afterCache == getFromCacheRefresh(inflight)
       IN inflight' =
            IF disableFeatureFlags THEN inflight
            ELSE IF hasFlag(flagsAt(featureFlags, endpoint), flagName) THEN afterCache
            ELSE afterCache (+) SetToBag({request("evaluate", flagName, FALSE)})
    /\ requests' = requests + BagCardinality(inflight') - BagCardinality(inflight)
    /\ requests' <= MaxRequests
    /\ notified' = Quiet
    /\ returned' = IF disableFeatureFlags
                   THEN kept("evaluateFeatureFlag", flagName, endpoint, "false", "none")
                   ELSE IF hasFlag(flagsAt(featureFlags, endpoint), flagName)
                   THEN kept("evaluateFeatureFlag", flagName, endpoint,
                             cachedValue(featureFlags, endpoint, flagName), "none")
                   ELSE NoReturn
    /\ UNCHANGED <<featureFlags, sinceUpdated, subscriptions, nextRefreshTimeout,
                   endpoint, timers, regs>>
    /\ UNCHANGED <<hasWindow, keepReturned, disableFeatureFlags, fuseVars, inputVars,
                   readmeVars, prioVars, ctxVars, ignVars>>

\* the answers of apiClient.evaluateFeatureFlag
EvaluateAnswers == {"true", "false", "null", "error"}

storedValue_failOpen(value) == value # "false"

\* FeatureFlagProvider.ts:91: value === null || isError(value) ? false : value
storedValue(value) == IF value \in {"null", "error"} THEN FALSE ELSE value = "true"

\* FeatureFlagProvider.ts:89-95: apiClient.evaluateFeatureFlag answers value
EvaluateDone(req, value) ==
    /\ BagIn(req, inflight)
    /\ req.op = "evaluate"
    /\ LET old == IF featureFlags[req.endpoint].defined
                  THEN featureFlags[req.endpoint] ELSE EmptyFlags
           ff == [featureFlags EXCEPT ![req.endpoint] =
                    setFlag(old, req.flag, storedValue(value))]
       IN /\ featureFlags' = ff
          /\ subscriptions' = notifiedSubscriptions(ff, subscriptions)
          /\ notified' = [done |-> TRUE, fired |-> notifiedCallbacks(ff, subscriptions)]
          /\ regs' = seenAfter(ff, regs)
    /\ inflight' = inflight (-) SetToBag({req})
    /\ UNCHANGED <<sinceUpdated, nextRefreshTimeout, endpoint, timers, requests>>
    /\ returned' = kept("evaluateFeatureFlag", req.flag, req.endpoint,
                        cachedValue(featureFlags', req.endpoint, req.flag), value)
    /\ UNCHANGED <<hasWindow, keepReturned, disableFeatureFlags, fuseVars, inputVars,
                   readmeVars, prioVars, ctxVars, ignVars>>

\* FeatureFlagProvider.ts:98-101: syncAuthStatus, called when the auth status
\* has changed, up to its await
SyncAuthStatus ==
    /\ requests < MaxRequests
    /\ featureFlags' = [e \in Endpoints |-> NoFlags]
    /\ inflight' = sentBefore(inflight) (+) SetToBag({request("refresh", <<>>, TRUE)})
    /\ requests' = requests + 1
    /\ notified' = Quiet
    /\ UNCHANGED <<sinceUpdated, subscriptions, nextRefreshTimeout, endpoint,
                   timers, regs>>
    /\ returned' = NoReturn
    /\ UNCHANGED <<hasWindow, keepReturned, disableFeatureFlags, fuseVars, inputVars,
                   readmeVars, prioVars, ctxVars, ignVars>>

\* the answers of apiClient.getEvaluatedFeatureFlags: an error, or the flags
ApiAnswers ==
    {NoFlags,
     [defined |-> TRUE, flags |-> <<[name |-> <<"a", "1">>, value |-> TRUE]>>],
     [defined |-> TRUE, flags |-> <<[name |-> <<"a", "1">>, value |-> TRUE],
                                    [name |-> <<"b", "1">>, value |-> TRUE]>>]}

refreshedFlags_undefinedOnError(data) == data

\* FeatureFlagProvider.ts:106: isError(data) ? {} : data
refreshedFlags(data) == IF data.defined THEN data ELSE EmptyFlags

\* FeatureFlagProvider.ts:105-117: getEvaluatedFeatureFlags answers data
\* (NoFlags stands for an error)
RefreshDone(req, data) ==
    /\ BagIn(req, inflight)
    /\ req.op = "refresh"
    /\ LET ff == [featureFlags EXCEPT ![req.endpoint] = refreshedFlags(data)]
           subs == notifiedSubscriptions(ff, subscriptions)
           cleared == IF nextRefreshTimeout # 0
                      THEN clearTimeout(timers, nextRefreshTimeout) ELSE timers
           handle == CHOOSE id \in 1..(Cardinality(cleared) + 1) :
                        \A t \in cleared : t.id # id
       IN /\ featureFlags' = ff
          /\ sinceUpdated' = 0
          /\ subscriptions' = subs
          /\ notified' = [done |-> TRUE, fired |-> notifiedCallbacks(ff, subscriptions)]
          /\ regs' = seenAfter(ff, regs)
          /\ IF DOMAIN subs # {}
             THEN /\ nextRefreshTimeout' = handle
                  /\ timers' = cleared \cup
                        {[id |-> handle, left |-> ONE_HOUR, kind |-> "refresh"]}
             ELSE /\ nextRefreshTimeout' = 0
                  /\ timers' = cleared
    /\ inflight' = inflight (-) SetToBag({req})
    /\ UNCHANGED <<endpoint, requests>>
    /\ returned' = kept("refreshFeatureFlags", <<>>, req.endpoint, "undefined",
                        IF data.defined THEN "flags" ELSE "error")
    /\ UNCHANGED <<hasWindow, keepReturned, disableFeatureFlags, fuseVars, inputVars,
                   readmeVars, prioVars, ctxVars, ignVars>>

\* FeatureFlagProvider.ts:134: the key the new subscription is stored under
subscriptionKey(endpointArg, prefixFilter) == prefixFilter

\* FeatureFlagProvider.ts:122-160: onFeatureFlagChanged(endpointArg,
\* prefixFilter, callback). The function returned is kept in regs: `full` is
\* the one of lines 146-159, `short` the one of line 131, which holds the
\* subscription object (obj, named after the callback it was made for) it
\* found; `none` is for the call that threw.
OnFeatureFlagChanged(endpointArg, prefixFilter, callback) ==
    /\ ~regs[callback].made
    /\ \A i \in 1..Len(CallbackOrder) :
            CallbackOrder[i] = callback => \A k \in 1..(i - 1) : regs[CallbackOrder[k]].made
    /\ LET key == endpointArg \o prefixFilter
           snapshot == computeFeatureFlagSnapshot(featureFlags, endpointArg, prefixFilter)
           reg == [made |-> TRUE, active |-> TRUE, endpoint |-> endpointArg,
                   prefix |-> prefixFilter, key |-> key, seen |-> snapshot]
       IN IF key \in DOMAIN subscriptions
          THEN /\ subscriptions' =
                    [subscriptions EXCEPT ![key].callbacks = @ \cup {callback}]
               /\ regs' = [regs EXCEPT ![callback] =
                            reg @@ [kind |-> "short", obj |-> subscriptions[key].obj]]
               /\ UNCHANGED <<nextRefreshTimeout, timers>>
          ELSE /\ subscriptions' =
                    [k \in DOMAIN subscriptions \cup {subscriptionKey(endpointArg, prefixFilter)} |->
                        IF k = subscriptionKey(endpointArg, prefixFilter)
                        THEN [lastSnapshot |-> snapshot, callbacks |-> {callback},
                              obj |-> callback]
                        ELSE subscriptions[k]]
               /\ IF nextRefreshTimeout # 0
                  THEN /\ regs' = [regs EXCEPT ![callback] =
                                    reg @@ [kind |-> "full", obj |-> callback]]
                       /\ UNCHANGED <<nextRefreshTimeout, timers>>
                  ELSE IF hasWindow
                  THEN /\ regs' = [regs EXCEPT ![callback] =
                                    reg @@ [kind |-> "full", obj |-> callback]]
                       /\ nextRefreshTimeout' = freshTimer
                       /\ timers' = timers \cup
                            {[id |-> freshTimer, left |-> ONE_HOUR, kind |-> "subscribe"]}
                  ELSE \* window.setTimeout throws a ReferenceError: the caller
                       \* is returned no function
                       /\ regs' = [regs EXCEPT ![callback] =
                                    reg @@ [kind |-> "none", obj |-> callback]]
                       /\ UNCHANGED <<nextRefreshTimeout, timers>>
    /\ notified' = Quiet
    /\ UNCHANGED <<featureFlags, sinceUpdated, endpoint, inflight, requests>>
    /\ returned' = NoReturn
    /\ UNCHANGED <<hasWindow, keepReturned, disableFeatureFlags, fuseVars, inputVars,
                   readmeVars, prioVars, ctxVars, ignVars>>

\* FeatureFlagProvider.ts:131 and 146-159: the function onFeatureFlagChanged
\* returned for callback is called
Unsubscribe(callback) ==
    /\ regs[callback].active
    /\ regs[callback].kind \in {"full", "short"}
    /\ regs' = [regs EXCEPT ![callback] = [NoReg EXCEPT !.made = TRUE]]
    /\ IF regs[callback].kind = "short"
       THEN /\ subscriptions' =
                [k \in DOMAIN subscriptions |->
                    IF subscriptions[k].obj = regs[callback].obj
                    THEN [subscriptions[k] EXCEPT !.callbacks = @ \ {callback}]
                    ELSE subscriptions[k]]
            /\ UNCHANGED <<nextRefreshTimeout, timers>>
       ELSE IF regs[callback].key \in DOMAIN subscriptions
       THEN LET key == regs[callback].key
                sub == [subscriptions[key] EXCEPT !.callbacks = @ \ {callback}]
                subs == IF sub.callbacks = {}
                        THEN [k \in DOMAIN subscriptions \ {key} |-> subscriptions[k]]
                        ELSE [subscriptions EXCEPT ![key] = sub]
            IN /\ subscriptions' = subs
               /\ IF DOMAIN subs = {} /\ nextRefreshTimeout # 0
                  THEN /\ timers' = clearTimeout(timers, nextRefreshTimeout)
                       /\ nextRefreshTimeout' = 0
                  ELSE UNCHANGED <<nextRefreshTimeout, timers>>
       ELSE UNCHANGED <<subscriptions, nextRefreshTimeout, timers>>
    /\ notified' = Quiet
    /\ UNCHANGED <<featureFlags, sinceUpdated, endpoint, inflight, requests>>
    /\ returned' = NoReturn
    /\ UNCHANGED <<hasWindow, keepReturned, disableFeatureFlags, fuseVars, inputVars,
                   readmeVars, prioVars, ctxVars, ignVars>>

\* FeatureFlagProvider.ts:115 and 140-143: a timer set by setTimeout is due and
\* runs its function
TimerFires(t) ==
    /\ t \in timers
    /\ t.left = 0
    /\ requests < MaxRequests
    /\ timers' = timers \ {t}
    /\ nextRefreshTimeout' = IF t.kind = "subscribe" THEN 0 ELSE nextRefreshTimeout
    /\ inflight' = startRefresh(inflight)
    /\ requests' = requests + 1
    /\ notified' = Quiet
    /\ UNCHANGED <<featureFlags, sinceUpdated, subscriptions, endpoint, regs>>
    /\ returned' = NoReturn
    /\ UNCHANGED <<hasWindow, keepReturned, disableFeatureFlags, fuseVars, inputVars,
                   readmeVars, prioVars, ctxVars, ignVars>>

\* an hour passes; a timer that is due runs first
Tick ==
    /\ \A t \in timers : t.left > 0
    /\ sinceUpdated < LongAgo \/ timers # {}
    /\ sinceUpdated' = IF sinceUpdated < LongAgo THEN sinceUpdated + ONE_HOUR ELSE LongAgo
    /\ timers' = {[t EXCEPT !.left = @ - ONE_HOUR] : t \in timers}
    /\ notified' = Quiet
    /\ UNCHANGED <<featureFlags, subscriptions, nextRefreshTimeout, endpoint, inflight,
                   requests, regs>>
    /\ returned' = NoReturn
    /\ UNCHANGED <<hasWindow, keepReturned, disableFeatureFlags, fuseVars, inputVars,
                   readmeVars, prioVars, ctxVars, ignVars>>

\* the user signs in to another instance: apiClient.endpoint changes
SetEndpoint(e) ==
    /\ e # endpoint
    /\ endpoint = <<<<"e1">>>>
    /\ endpoint' = e
    /\ notified' = Quiet
    /\ UNCHANGED <<featureFlags, sinceUpdated, subscriptions, nextRefreshTimeout,
                   timers, inflight, requests, regs>>
    /\ returned' = NoReturn
    /\ UNCHANGED <<hasWindow, keepReturned, disableFeatureFlags, fuseVars, inputVars,
                   readmeVars, prioVars, ctxVars, ignVars>>

\* ------------------------------------------------------------- IgnoreHelper
(***************************************************************************)
(* A URI is a record of its scheme and its path; a path, a rule and the    *)
(* text of an ignore file are strings, with "/" and the line break atoms   *)
(* of their own and a path segment one atom. All of it is for a POSIX host *)
(* (isWindows() false).                                                    *)
(***************************************************************************)

NewLine == "\n"

\* part_002:12
CODY_IGNORE_URI_PATH == <<".cody", "/", "ignore">>

\* String.prototype.endsWith
endsWith(str, suffix) ==
    /\ Len(suffix) <= Len(str)
    /\ SubSeq(str, Len(str) - Len(suffix) + 1, Len(str)) = suffix

RECURSIVE split(_, _)
\* String.prototype.split on a one-atom separator: at least one piece
split(str, sep) ==
    IF indexOf(str, sep) = 0 THEN <<str>>
    ELSE <<SubSeq(str, 1, indexOf(str, sep) - 1)>>
             \o split(SubSeq(str, indexOf(str, sep) + 1, Len(str)), sep)

RECURSIVE join(_, _)
\* Array.prototype.join of strings with a one-atom separator
join(pieces, sep) ==
    IF pieces = <<>> THEN <<>>
    ELSE IF Len(pieces) = 1 THEN pieces[1]
    ELSE pieces[1] \o <<sep>> \o join(Tail(pieces), sep)

\* the segments of a path: its pieces between slashes that are not empty
segments(path) == SelectSeq(split(path, "/"), LAMBDA piece : piece # <<>>)

\* the absolute path of the given segments
absolutePath(segs) == <<"/">> \o join(segs, "/")

\* vscode-uri, the URI constructor: a path of the schemes file, http and https
\* is made absolute (its reference resolution), any other path is kept
URI(scheme, path) ==
    [scheme |-> scheme,
     path |-> IF scheme \in {"file", "http", "https"}
              THEN (IF path = <<>> THEN <<"/">>
                    ELSE IF Head(path) # "/" THEN <<"/">> \o path
                    ELSE path)
              ELSE path]

\* vscode-uri, URI.revive of the components of a URI, as a message carries
\* them: the path is kept as it is
reviveUri(scheme, path) == [scheme |-> scheme, path |-> path]

\* URI.file of an absolute path given by its segments
fileUri(names) == URI("file", absolutePath([i \in 1..Len(names) |-> <<names[i]>>]))

\* vscode-uri, URI.prototype.toString: the scheme, a colon, two slashes for
\* the scheme `file` (there is no authority), the path
uriToString(uri) ==
    <<uri.scheme, ":">> \o (IF uri.scheme = "file" THEN <<"//">> ELSE <<>>) \o uri.path

\* vscode-uri, URI.parse, of a string that toString gave
parseUri(str) ==
    URI(str[1],
        IF Len(str) >= 3 /\ str[3] = "//"
        THEN SubSeq(str, 4, Len(str)) ELSE SubSeq(str, 3, Len(str)))

\* part_002:147-151: TRUE when the call returns, FALSE when it throws
ensureFileUri(uri) == uri.scheme = "file"

ensureAbsolute_lenient(uri) == TRUE

\* part_002:153-157
ensureAbsolute(uri) == startsWith(uri.path, <<"/">>)

\* part_002:159-164
ensureValidCodyIgnoreFile(uri) ==
    ensureAbsolute(uri) /\ endsWith(uri.path, CODY_IGNORE_URI_PATH)

\* part_002:179-181, Utils.joinPath(ignoreFile, '..', '..'): the path without
\* its last two segments
ignoreFileEffectiveDirectory(ignoreFile) ==
    LET segs == segments(ignoreFile.path)
    IN  [ignoreFile EXCEPT
            !.path = absolutePath(SubSeq(segs, 1, IF Len(segs) >= 2 THEN Len(segs) - 2 ELSE 0))]

RECURSIVE commonSegments(_, _)
\* how many leading segments two lists of segments share
commonSegments(a, b) ==
    IF a = <<>> \/ b = <<>> \/ Head(a) # Head(b) THEN 0
    ELSE 1 + commonSegments(Tail(a), Tail(b))

\* part_002:50-57, posixAndURIPaths.relative(from.path, to.path): one ".."
\* for every segment of `from` that `to` does not share, then the segments
\* of `to` that `from` does not share
relativePath(from, to) ==
    LET f == segments(from.path)
        t == segments(to.path)
        n == commonSegments(f, t)
    IN  join([i \in 1..(Len(f) - n) |-> <<"..">>] \o SubSeq(t, n + 1, Len(t)), "/")

\* uriHasPrefix(uri, prefix, false): same scheme, and the same path or a path
\* under the prefix
uriHasPrefix(uri, prefix) ==
    /\ uri.scheme = prefix.scheme
    /\ \/ uri.path = prefix.path
       \/ startsWith(uri.path, IF endsWith(prefix.path, <<"/">>)
                               THEN prefix.path ELSE prefix.path \o <<"/">>)

\* uriBasename(uri): the last segment of the path, empty when there is none
uriBasename(uri) ==
    LET segs == segments(uri.path)
    IN  IF segs = <<>> THEN <<>> ELSE segs[Len(segs)]

\* ---- the package `ignore`: rules are kept in the order they were added
\* a rule as the package reads it: `!` negates, a closing slash restricts the
\* rule to directories, a slash elsewhere anchors it to the root
parseRule(rule) ==
    LET negative == startsWith(rule, <<"!">>)
        pattern == IF negative THEN Tail(rule) ELSE rule
        dirOnly == endsWith(pattern, <<"/">>)
    IN  [negative |-> negative,
         dirOnly |-> dirOnly,
         segments |-> split(IF dirOnly THEN SubSeq(pattern, 1, Len(pattern) - 1)
                            ELSE pattern, "/")]

\* the rule's pattern matches the path given by its segments; isDir tells a
\* directory (a path with a closing slash). The patterns are literal names:
\* one segment matches at any depth, several match from the root.
ruleMatches(rule, segs, isDir) ==
    LET r == parseRule(rule)
    IN  /\ r.dirOnly => isDir
        /\ IF Len(r.segments) = 1
           THEN segs[Len(segs)] = r.segments[1]
           ELSE segs = r.segments

RECURSIVE testOne_noNegation(_, _, _, _)
testOne_noNegation(rules, segs, isDir, ignored) ==
    IF rules = <<>> THEN ignored
    ELSE testOne_noNegation(Tail(rules), segs, isDir,
                            ignored \/ ruleMatches(Head(rules), segs, isDir))

RECURSIVE testOne(_, _, _, _)
\* the last rule that matches decides; `ignored` is the decision so far
testOne(rules, segs, isDir, ignored) ==
    IF rules = <<>> THEN ignored
    ELSE testOne(Tail(rules), segs, isDir,
                 IF ruleMatches(Head(rules), segs, isDir)
                 THEN ~parseRule(Head(rules)).negative ELSE ignored)

RECURSIVE testPath(_, _, _)
\* a path under an ignored directory is ignored, whatever the rules say of it
testPath(rules, segs, isDir) ==
    IF Len(segs) > 1 /\ testPath(rules, SubSeq(segs, 1, Len(segs) - 1), TRUE)
    THEN TRUE
    ELSE testOne(rules, segs, isDir, FALSE)

\* Ignore.prototype.ignores(path): throws on an empty path and on a path that
\* is not relative; "true" or "false" otherwise
ignores(rules, path) ==
    IF path = <<>> \/ Head(path) \in {"/", "..", "."} THEN "throws"
    ELSE IF testPath(rules, split(path, "/"), FALSE) THEN "true" ELSE "false"

\* part_002:166-168: ignore().add('.env')
getDefaultIgnores == <<<<".env">>>>

\* part_002:77-95: the rule a line of an ignore file gives, none for a blank
\* line and a comment
lineRules(relativeFolderUriPath, line) ==
    LET ignoreLine == trim(line)
        isInverted == startsWith(ignoreLine, <<"!">>)
        body == IF isInverted THEN Tail(ignoreLine) ELSE ignoreLine
        ignoreRule == IF Len(relativeFolderUriPath) > 0
                      THEN relativeFolderUriPath \o <<"/">> \o body
                      ELSE body
    IN  IF Len(ignoreLine) = 0 \/ startsWith(ignoreLine, <<"#">>)
        THEN <<>>
        ELSE <<(IF isInverted THEN <<"!">> ELSE <<>>) \o ignoreRule>>

RECURSIVE linesRules(_, _)
linesRules(relativeFolderUriPath, lines) ==
    IF lines = <<>> THEN <<>>
    ELSE lineRules(relativeFolderUriPath, Head(lines))
             \o linesRules(relativeFolderUriPath, Tail(lines))

ignoreFileRules_noPrefix(workspaceRoot, ignoreFile) ==
    linesRules(<<>>, split(ignoreFile.content, NewLine))

\* part_002:71-96: the rules one ignore file adds
ignoreFileRules(workspaceRoot, ignoreFile) ==
    linesRules(relativePath(workspaceRoot, ignoreFileEffectiveDirectory(ignoreFile.uri)),
               split(ignoreFile.content, NewLine))

RECURSIVE addIgnoreFiles(_, _, _)
\* part_002:68-97: the loop over the ignore files; it stops at the first
\* ignore file whose URI is refused
addIgnoreFiles(workspaceRoot, ignoreFiles, rules) ==
    IF ignoreFiles = <<>> THEN [threw |-> FALSE, rules |-> rules]
    ELSE IF ~ensureValidCodyIgnoreFile(Head(ignoreFiles).uri)
    THEN [threw |-> TRUE, rules |-> <<>>]
    ELSE addIgnoreFiles(workspaceRoot, Tail(ignoreFiles),
                        rules \o ignoreFileRules(workspaceRoot, Head(ignoreFiles)))

\* part_002:64-97 up to the assignment: the rules setIgnoreFiles builds, or
\* that it threw
buildRules(workspaceRoot, ignoreFiles) ==
    IF ~ensureAbsolute(workspaceRoot) THEN [threw |-> TRUE, rules |-> <<>>]
    ELSE addIgnoreFiles(workspaceRoot, ignoreFiles, getDefaultIgnores)

\* `undefined` where a URI is expected
NoUri == [scheme |-> "<undefined>", path |-> <<>>]

findWorkspaceRoot_longest(ignores0, file) ==
    LET candidates == {k \in DOMAIN ignores0 : uriHasPrefix(file, parseUri(k))}
    IN  IF candidates = {} THEN NoUri
        ELSE parseUri(CHOOSE c \in candidates :
                          \A d \in candidates : length(c) >= length(d))

\* part_002:136-145: of the registered roots that are a prefix of the file,
\* the one whose string is the shortest
findWorkspaceRoot(ignores0, file) ==
    LET candidates == {k \in DOMAIN ignores0 : uriHasPrefix(file, parseUri(k))}
    IN  IF candidates = {} THEN NoUri
        ELSE parseUri(CHOOSE c \in candidates :
                          \A d \in candidates : length(c) <= length(d))

\* part_002:122-133: isIgnored once the feature is known to be active and
\* the URI to be a file URI
isIgnoredFile(ignores0, uri) ==
    IF ~ensureFileUri(uri) \/ ~ensureAbsolute(uri) THEN "throws"
    ELSE LET workspaceRoot == findWorkspaceRoot(ignores0, uri)
             key == uriToString(workspaceRoot)
         IN  IF workspaceRoot = NoUri
             THEN ignores(getDefaultIgnores, uriBasename(uri))
             ELSE ignores(IF key \in DOMAIN ignores0 THEN ignores0[key]
                          ELSE getDefaultIgnores,
                          relativePath(workspaceRoot, uri))

isIgnored_alwaysActive(active, ignores0, uri) ==
    IF uri.scheme # "file" THEN "false"
    ELSE isIgnoredFile(ignores0, uri)

\* part_002:106-134: "true", "false" or "throws"
isIgnored(active, ignores0, uri) ==
    IF ~active THEN "false"
    ELSE IF uri.scheme # "file" THEN "false"
    ELSE isIgnoredFile(ignores0, uri)

\* ---- the calls made to the helper
RootW == fileUri(<<"w">>)
RootSub == fileUri(<<"w", "sub">>)

\* the two file roots, a root of another scheme and a relative root
IgnoreRoots == {RootW, RootSub, URI("vfs", <<"/", "w">>), URI("vfs", <<"w">>)}

\* the ignore file of the folder with the given segments
codyIgnoreOf(names) == fileUri(names \o <<".cody", "ignore">>)

IgnoreFileLists ==
    {<<>>,
     \* one rule in the ignore file of /w
     <<[uri |-> codyIgnoreOf(<<"w">>), content |-> <<"build", "/">>]>>,
     \* the same rule among a comment, an empty line and white space
     <<[uri |-> codyIgnoreOf(<<"w">>),
        content |-> <<" ", "#", "c", NewLine, NewLine, " ", "build", "/", " ">>]>>,
     \* the rule in the ignore file of the nested folder /w/sub
     <<[uri |-> codyIgnoreOf(<<"w", "sub">>), content |-> <<"build", "/">>]>>,
     \* a rule of /w that the ignore file of /w/sub inverts
     <<[uri |-> codyIgnoreOf(<<"w">>), content |-> <<"out.js">>],
       [uri |-> codyIgnoreOf(<<"w", "sub">>), content |-> <<"!", "out.js">>]>>,
     \* the default rule inverted
     <<[uri |-> codyIgnoreOf(<<"w">>), content |-> <<"!", ".env">>]>>,
     \* the ignore file of a folder outside /w
     <<[uri |-> codyIgnoreOf(<<"v">>), content |-> <<"build", "/">>]>>,
     \* a file that is not named .cody/ignore
     <<[uri |-> fileUri(<<"w", "ignore">>), content |-> <<"build", "/">>]>>,
     \* a relative ignore file after a good one
     <<[uri |-> codyIgnoreOf(<<"w">>), content |-> <<"build", "/">>],
       [uri |-> URI("vfs", <<".cody", "/", "ignore">>), content |-> <<"out.js">>]>>,
     \* a folder ignored and a file of it inverted; in the nested folder, a
     \* folder ignored and inverted
     <<[uri |-> codyIgnoreOf(<<"w">>),
        content |-> <<"build", "/", NewLine, "!", "build", "/", "out.js">>],
       [uri |-> codyIgnoreOf(<<"w", "sub">>),
        content |-> <<"build", "/", NewLine, "!", "build", "/">>]>>}

\* the calls of setIgnoreFiles: every list for the root /w, the lists of at
\* most one ignore file with the line build/ for the root /w/sub, two lists
\* for the root of another scheme, one for the relative root
SetIgnoreFilesCalls ==
    ({RootW} \X IgnoreFileLists)
        \cup ({RootSub}
                  \X {l \in IgnoreFileLists :
                          Len(l) <= 1 /\ \A i \in 1..Len(l) : l[i].content = <<"build", "/">>})
        \cup ({URI("vfs", <<"/", "w">>)}
                  \X {<<>>, <<[uri |-> codyIgnoreOf(<<"w">>), content |-> <<"build", "/">>]>>})
        \cup ({URI("vfs", <<"w">>)}
                  \X {<<[uri |-> codyIgnoreOf(<<"w">>), content |-> <<"build", "/">>]>>})

\* the URIs isIgnored is asked about
QueryUris ==
    {fileUri(<<"w", "build", "out.js">>), fileUri(<<"w", "src", "out.js">>),
     fileUri(<<"w", "sub", "build", "out.js">>), fileUri(<<"w", "sub", "out.js">>),
     fileUri(<<"w", ".env">>), fileUri(<<"v", ".env">>), fileUri(<<"v", "out.js">>),
     fileUri(<<"w">>), fileUri(<<>>),
     URI("vfs", <<"/", "w", "/", ".env">>), URI("vfs", <<".env">>),
     reviveUri("file", <<".env">>)}

NoIgnoreCall ==
    [op |-> "none", uri |-> NoUri, files |-> <<>>, outcome |-> "none", replaced |-> FALSE]

\* Map.prototype.set and delete on workspaceIgnores
mapSet(m, key, value) == [k \in DOMAIN m \cup {key} |-> IF k = key THEN value ELSE m[k]]

mapDelete(m, key) == [k \in DOMAIN m \ {key} |-> m[k]]

\* part_002:42-45
SetActiveState(active) ==
    /\ isActive' = active
    /\ lastCall' = [NoIgnoreCall EXCEPT !.op = "setActiveState", !.outcome = "done"]
    /\ UNCHANGED <<workspaceIgnores, fuseVars, inputVars, readmeVars, prioVars, ctxVars,
                   ffVars>>

SetIgnoreFiles_incremental(workspaceRoot, ignoreFiles) ==
    LET built == buildRules(workspaceRoot, ignoreFiles)
        key == uriToString(workspaceRoot)
        had == key \in DOMAIN workspaceIgnores
        rules == IF had THEN workspaceIgnores[key] \o Tail(built.rules) ELSE built.rules
    IN  /\ workspaceIgnores' =
               IF built.threw THEN workspaceIgnores
               ELSE mapSet(workspaceIgnores, key, rules)
        /\ lastCall' = [op |-> "setIgnoreFiles", uri |-> workspaceRoot,
                        files |-> ignoreFiles,
                        outcome |-> IF built.threw THEN "throws" ELSE "done",
                        replaced |-> ~built.threw /\ had
                                         /\ workspaceIgnores[key] # built.rules]
        /\ UNCHANGED <<isActive, fuseVars, inputVars, readmeVars, prioVars, ctxVars,
                       ffVars>>

\* part_002:64-100: nothing is stored when a check throws; `replaced` tells
\* that the root had other rules before
SetIgnoreFiles(workspaceRoot, ignoreFiles) ==
    LET built == buildRules(workspaceRoot, ignoreFiles)
        key == uriToString(workspaceRoot)
        had == key \in DOMAIN workspaceIgnores
    IN  /\ workspaceIgnores' =
               IF built.threw THEN workspaceIgnores
               ELSE mapSet(workspaceIgnores, key, built.rules)
        /\ lastCall' = [op |-> "setIgnoreFiles", uri |-> workspaceRoot,
                        files |-> ignoreFiles,
                        outcome |-> IF built.threw THEN "throws" ELSE "done",
                        replaced |-> ~built.threw /\ had
                                         /\ workspaceIgnores[key] # built.rules]
        /\ UNCHANGED <<isActive, fuseVars, inputVars, readmeVars, prioVars, ctxVars,
                       ffVars>>

\* part_002:102-104
ClearIgnoreFiles(workspaceRoot) ==
    /\ workspaceIgnores' = mapDelete(workspaceIgnores, uriToString(workspaceRoot))
    /\ lastCall' = [NoIgnoreCall EXCEPT !.op = "clearIgnoreFiles", !.uri = workspaceRoot,
                                        !.outcome = "done"]
    /\ UNCHANGED <<isActive, fuseVars, inputVars, readmeVars, prioVars, ctxVars, ffVars>>

\* part_002:106-134
IsIgnored(uri) ==
    /\ lastCall' = [NoIgnoreCall EXCEPT
                       !.op = "isIgnored", !.uri = uri,
                       !.outcome = isIgnored(isActive, workspaceIgnores, uri)]
    /\ UNCHANGED <<isActive, workspaceIgnores, fuseVars, inputVars, readmeVars, prioVars,
                   ctxVars, ffVars>>

\* ------------------------------------------------- parts a specification
\* ------------------------------------------------- leaves untouched

IdleFuse ==
    /\ keywordItems = <<>>
    /\ embeddingsItems = <<>>
    /\ maxChars = 0
    /\ fused = <<>>
    /\ fpc = "idle"

NoEditor ==
    [selectedText |-> Undefined, visibleContent |-> Undefined,
     visibleFileUri |-> Undefined, workspaceRoot |-> Undefined]

IdleInput ==
    /\ text = <<>>
    /\ editor = NoEditor

IdleReadme ==
    /\ readmeNeeded = FALSE
    /\ rpc = "idle"

IdlePrio ==
    /\ retrievedContext = <<>>
    /\ priorityContext = <<>>
    /\ branch = "none"
    /\ readmeFetches = 0
    /\ readmeFound = NoReadme
    /\ ppc = "idle"

NoCall == [st |-> "idle", items |-> <<>>, raw |-> <<>>, reads |-> <<>>, calls |-> 0,
           probes |-> 0]

\* FeatureFlagProvider.ts:53-63: the provider as constructed; the handle 0
\* stands for `undefined`
NewProvider ==
    /\ featureFlags = [e \in Endpoints |-> NoFlags]
    /\ sinceUpdated = LongAgo
    /\ subscriptions = <<>>
    /\ nextRefreshTimeout = 0
    /\ endpoint = <<<<"e1">>>>
    /\ timers = {}
    /\ inflight = EmptyBag
    /\ requests = 0
    /\ regs = [c \in Callbacks |-> NoReg]
    /\ notified = Quiet
    /\ returned = NoReturn

\* no use of the provider
IdleFF ==
    /\ NewProvider
    /\ hasWindow = TRUE
    /\ keepReturned = FALSE
    /\ disableFeatureFlags = FALSE

\* part_002:35-41: the helper as constructed
NewIgnoreHelper ==
    /\ isActive = FALSE
    /\ workspaceIgnores = <<>>
    /\ lastCall = NoIgnoreCall

IdleCtx ==
    /\ opts = [strategy |-> "none", internalUnstable |-> FALSE, isAgentTesting |-> FALSE,
               localEmbeddings |-> FALSE, symf |-> FALSE, remoteSearch |-> FALSE,
               maxChars |-> 0]
    /\ prov = [p \in {"emb", "symf", "remote"} |-> NoCall]
    /\ searchContext = <<>>
    /\ result = <<>>
    /\ cpc = "idle"

\* ------------------------------------------- specification: fuseContext alone

FuseInit ==
    /\ keywordItems \in ItemLists("search")
    /\ embeddingsItems \in ItemLists("embeddings")
    /\ maxChars \in 0..MaxChars
    /\ fused = <<>>
    /\ fpc = "call"
    /\ IdleInput
    /\ IdleReadme
    /\ IdlePrio
    /\ IdleCtx
    /\ IdleFF
    /\ NewIgnoreHelper

FuseCall ==
    /\ fpc = "call"
    /\ fused' = fuseContext(keywordItems, embeddingsItems, maxChars)
    /\ fpc' = "done"
    /\ UNCHANGED <<keywordItems, embeddingsItems, maxChars>>
    /\ UNCHANGED <<inputVars, readmeVars, prioVars, ctxVars, ffVars, ignVars>>

FuseNext == FuseCall

FuseSpec == FuseInit /\ [][FuseNext]_vars

\* ----------------------------------------------------- claims on fuseContext

InFused(item) == item \in Range(fused)

\* the items of `items` at positions before i that were included
IncludedBefore(items, i) ==
    SelectSeq(SubSeq(items, 1, i - 1), LAMBDA it : InFused(it))

KeywordPart == SelectSeq(fused, LAMBDA it : it.source = "search")

\* C1: the text lengths of the items fuseContext returns sum to at most
\* maxChars, for every keyword list, embeddings list and budget >= 0.
C1_FusedWithinBudget ==
    fpc = "done" => SumLen(fused) <= maxChars

\* the budget is filled exactly, by items of both lists, and an item was dropped
C1_Witness ==
    /\ fpc = "done"
    /\ maxChars > 0
    /\ SumLen(fused) = maxChars
    /\ \E a, b \in Range(fused) : a.source = "search" /\ b.source = "embeddings"
    /\ Len(fused) < Len(keywordItems) + Len(embeddingsItems)

\* C2: with embeddings items present, the keyword items taken sum to at most
\* 0.8 x maxChars, and a keyword item longer than that is dropped even when it
\* fits the whole budget; with no embeddings items a keyword item is taken
\* exactly when it fits what is left of the whole of maxChars.
C2_KeywordCap ==
    fpc = "done" =>
        /\ embeddingsItems # <<>> =>
            /\ 5 * SumLen(KeywordPart) <= 4 * maxChars
            /\ \A i \in 1..Len(keywordItems) :
                 5 * keywordItems[i].len > 4 * maxChars => ~InFused(keywordItems[i])
        /\ embeddingsItems = <<>> =>
            \A i \in 1..Len(keywordItems) :
                InFused(keywordItems[i]) <=>
                    SumLen(IncludedBefore(keywordItems, i)) + keywordItems[i].len
                        <= maxChars

\* a keyword item that fits maxChars but not 80% of it is dropped because an
\* embeddings item exists
C2_Witness ==
    /\ fpc = "done"
    /\ embeddingsItems # <<>>
    /\ \E i \in 1..Len(keywordItems) :
        /\ keywordItems[i].len <= maxChars
        /\ 5 * keywordItems[i].len > 4 * maxChars
        /\ ~InFused(keywordItems[i])

\* the same list of keyword items fills the whole budget when there is no
\* embeddings item
C2_WitnessNoEmbeddings ==
    /\ fpc = "done"
    /\ embeddingsItems = <<>>
    /\ maxChars > 0
    /\ SumLen(fused) = maxChars

\* keywordCap of the claim, times 5
KeywordCap5 == IF embeddingsItems # <<>> THEN 4 * maxChars ELSE 5 * maxChars

\* C3: greedy first-fit. The result is the in-order subsequence of the keyword
\* items that fit the keyword cap at their turn, followed by the in-order
\* subsequence of the embeddings items that fit maxChars at their turn; items
\* are whole, a miss does not end the scan.
C3_GreedyFirstFit ==
    fpc = "done" =>
        /\ fused = SelectSeq(keywordItems, LAMBDA it : InFused(it))
                     \o SelectSeq(embeddingsItems, LAMBDA it : InFused(it))
        /\ \A i \in 1..Len(keywordItems) :
            InFused(keywordItems[i]) <=>
                5 * (SumLen(IncludedBefore(keywordItems, i)) + keywordItems[i].len)
                    <= KeywordCap5
        /\ \A j \in 1..Len(embeddingsItems) :
            InFused(embeddingsItems[j]) <=>
                SumLen(KeywordPart) + SumLen(IncludedBefore(embeddingsItems, j))
                    + embeddingsItems[j].len <= maxChars
        /\ (/\ 5 * SumLen(keywordItems) <= KeywordCap5
            /\ SumLen(keywordItems) + SumLen(embeddingsItems) <= maxChars)
           => fused = keywordItems \o embeddingsItems

\* in both lists an item is skipped and a later one is still included
C3_Witness ==
    /\ fpc = "done"
    /\ \E i, j \in 1..Len(keywordItems) :
        i < j /\ ~InFused(keywordItems[i]) /\ InFused(keywordItems[j])
    /\ \E i, j \in 1..Len(embeddingsItems) :
        i < j /\ ~InFused(embeddingsItems[i]) /\ InFused(embeddingsItems[j])

\* ------------------------------------ specification: needsReadmeContext alone

ReadmeAtoms == {"what", "how", "Project", "repository", "myapp", " ", "?", Filler}

ReadmeQueries == UNION {[1..n -> ReadmeAtoms] : n \in 0..MaxQuery}

\* no workspace; file:///w/MyApp; file:///w/MyApp/ (a trailing slash);
\* folders called like a property of Object.prototype, two of them with
\* capital letters in the property's name
WorkspaceRoots == {Undefined, <<"file:", "", "", "w", "MyApp">>,
                   <<"file:", "", "", "w", "MyApp", "">>,
                   <<"file:", "", "", "w", "Constructor">>,
                   <<"file:", "", "", "w", "__proto__">>,
                   <<"file:", "", "", "w", "toString">>,
                   <<"file:", "", "", "w", "valueOf">>}

ReadmeInit ==
    /\ text \in ReadmeQueries
    /\ editor \in [selectedText : {Undefined}, visibleContent : {Undefined},
                   visibleFileUri : {Undefined}, workspaceRoot : WorkspaceRoots]
    /\ readmeNeeded = FALSE
    /\ rpc = "call"
    /\ IdleFuse
    /\ IdlePrio
    /\ IdleCtx
    /\ IdleFF
    /\ NewIgnoreHelper

ReadmeCall ==
    /\ rpc = "call"
    /\ readmeNeeded' = needsReadmeContext(editor, text)
    /\ rpc' = "done"
    /\ UNCHANGED <<fuseVars, inputVars, prioVars, ctxVars, ffVars, ignVars>>

ReadmeNext == ReadmeCall

ReadmeSpec == ReadmeInit /\ [][ReadmeNext]_vars

\* ------------------------------------------------ claims on needsReadmeContext

\* the words of the lower-cased message
WordsOf(str) == Range(splitWords(toLowerCase(str), <<>>))

\* the extracted question of the claim: the first `?`-terminated clause or,
\* without a `?`, the whole message when it is under 100 characters
HasQuestion(str) ==
    \/ \E i \in 1..Len(str) : str[i] = "?"
    \/ length(trim(str)) < 100

QuestionOf(str) ==
    IF \E i \in 1..Len(str) : str[i] = "?"
    THEN SubSeq(str, 1, indexOf(str, "?"))
    ELSE str

\* C10: needsReadmeContext is true exactly for the messages that (a) hold a
\* question indicator (what, how, describe, explain, or a literal ?) within
\* the extracted question and (b) hold a project signifier (or the workspace
\* root's folder name), case-insensitively.
C10_ReadmeExactly ==
    rpc = "done" =>
        (readmeNeeded <=>
            /\ HasQuestion(text)
            /\ \/ \E w \in {"what", "how", "describe", "explain"} :
                    <<w>> \in WordsOf(QuestionOf(text))
               \/ \E i \in 1..Len(QuestionOf(text)) : QuestionOf(text)[i] = "?"
            /\ \E p \in projectSignifiers \cup rootBaseSignifiers(editor) :
                    <<p>> \in WordsOf(text))

\* ------------------------------------ specification: getPriorityContext alone

PrioWords == {"what", "Project", "This", "file", "editor"}

RECURSIVE joinWords(_)
\* the words, one space between two
joinWords(ws) ==
    IF Len(ws) <= 1 THEN ws ELSE <<Head(ws), " ">> \o joinWords(Tail(ws))

\* messages for the patterns the words above cannot spell, and near misses
AttentionQueries ==
    {<<"current", "ly", " ", "open">>, <<"current", " ", " ", "open">>,
     <<"current", "ly", "open">>, <<"have", " ", "open">>, <<"have", "open">>,
     <<"entire", " ", " ", "file">>, <<"open", " ", "file">>, <<"file", " ", "open">>,
     <<"what", " ", "Project", " ", "have", " ", "open">>}

\* the messages of up to MaxWords words; those about the open file; messages
\* of 99, 100, 101 and 102 characters that ask about the project, without and
\* with a `?`, and one of 101 characters that asks for the open file
PrioQueries ==
    {joinWords(ws) : ws \in UNION {[1..n -> PrioWords] : n \in 0..MaxWords}}
        \cup AttentionQueries
        \cup {<<"how", Filler, "Project">>, <<"what", Filler, "Project">>,
              <<"what", " ", "Project", Filler>>,
              <<"what", " ", " ", "Project", Filler>>,
              <<"what", " ", "Project", "?", Filler>>,
              <<"This", " ", "file", Filler, "how">>}

\* no selection, an empty one, white space, code; no visible editor, a blank
\* one, one without a file uri, one showing code
PrioEditors ==
    {[selectedText |-> s, visibleContent |-> v[1], visibleFileUri |-> v[2],
      workspaceRoot |-> <<"file:", "", "", "w", "MyApp">>] :
        s \in {Undefined, <<>>, <<" ">>, <<"code">>},
        v \in {<<Undefined, Undefined>>, <<<<" ">>, MainUri>>,
               <<<<"code", " ", "code">>, Undefined>>,
               <<<<"code", " ", "code">>, MainUri>>}}

\* basenames of the files the retrieved context comes from
RetrievedUris ==
    {MainUri, <<"README">>, <<"Readme", ".", "md">>, <<"readme", "s", ".", "md">>}

RetrievedContexts ==
    {<<>>} \cup
    {<<[source |-> "search", idx |-> 1, len |-> 1, uri |-> MainUri],
       [source |-> "embeddings", idx |-> 1, len |-> 1, uri |-> u]>> : u \in RetrievedUris}

\* what the workspace holds for getReadmeContext: the file findFiles answers
\* (Undefined: none) and the lengths truncateTextNearestLine may leave of its
\* text
ReadmeUris == {Undefined, <<"README", ".", "md">>}

ReadmeLengths == {0, 2}

PrioInit ==
    /\ text \in PrioQueries
    /\ editor \in PrioEditors
    /\ retrievedContext \in RetrievedContexts
    /\ priorityContext = <<>>
    /\ branch = "none"
    /\ readmeFetches = 0
    /\ readmeFound = NoReadme
    /\ ppc = "call"
    /\ IdleFuse
    /\ IdleReadme
    /\ IdleCtx
    /\ IdleFF
    /\ NewIgnoreHelper

\* part_001:331-361 up to the await of getReadmeContext
PriorityCall ==
    /\ ppc = "call"
    /\ branch' = getPriorityBranch(text, editor)
    /\ CASE branch' = "selection" ->
              /\ priorityContext' = getCurrentSelectionContext(editor)
              /\ ppc' = "done"
              /\ UNCHANGED readmeFetches
         [] branch' = "attention" ->
              /\ priorityContext' = getVisibleEditorContext(editor)
              /\ ppc' = "done"
              /\ UNCHANGED readmeFetches
         [] branch' = "readme" /\ ~containsREADME(retrievedContext) ->
              /\ readmeFetches' = readmeFetches + 1
              /\ ppc' = "readme"
              /\ UNCHANGED priorityContext
         [] OTHER ->
              /\ ppc' = "done"
              /\ UNCHANGED <<priorityContext, readmeFetches>>
    /\ UNCHANGED <<retrievedContext, readmeFound, fuseVars, inputVars, readmeVars, ctxVars,
                   ffVars, ignVars>>

\* part_001:357 and 426-428: findFiles answers. Without a file
\* getReadmeContext resolves with [], with one it goes on to open it; when
\* findFiles rejects, getReadmeContext and getPriorityContext reject.
\* readmeFound keeps what findFiles and truncateTextNearestLine answered.
ReadmeFindFiles ==
    /\ ppc = "readme"
    /\ \/ \E readmeUri \in ReadmeUris :
            /\ readmeFound' = <<readmeUri, 0>>
            /\ IF readmeUri = Undefined
               THEN /\ priorityContext' = priorityContext \o getReadmeContext(readmeUri, 0)
                    /\ ppc' = "done"
               ELSE /\ ppc' = "open"
                    /\ UNCHANGED priorityContext
       \/ /\ ppc' = "rejected"
          /\ UNCHANGED <<priorityContext, readmeFound>>
    /\ UNCHANGED <<retrievedContext, branch, readmeFetches, fuseVars, inputVars,
                   readmeVars, ctxVars, ffVars, ignVars>>

\* part_001:357 and 430-447: openTextDocument answers the README, and
\* getReadmeContext resolves with its truncated text, or with [] when that is
\* empty; when openTextDocument rejects, getReadmeContext and
\* getPriorityContext reject
ReadmeOpenTextDocument ==
    /\ ppc = "open"
    /\ \/ \E truncatedLength \in ReadmeLengths :
            /\ readmeFound' = <<readmeFound[1], truncatedLength>>
            /\ priorityContext' =
                    priorityContext \o getReadmeContext(readmeFound[1], truncatedLength)
            /\ ppc' = "done"
       \/ /\ ppc' = "rejected"
          /\ UNCHANGED <<priorityContext, readmeFound>>
    /\ UNCHANGED <<retrievedContext, branch, readmeFetches, fuseVars, inputVars,
                   readmeVars, ctxVars, ffVars, ignVars>>

PrioNext == PriorityCall \/ ReadmeFindFiles \/ ReadmeOpenTextDocument

PrioSpec == PrioInit /\ [][PrioNext]_vars

\* ------------------------------------------------ claims on getPriorityContext

HasSelection == editor.selectedText # Undefined /\ editor.selectedText # <<>>

\* C8: with an active selection of non-empty text the priority output is
\* exactly the selection item, whatever the message and the retrieved
\* context; the visible editor and the README contribute nothing.
C8_SelectionFirst ==
    (ppc = "done" /\ HasSelection) =>
        /\ Len(priorityContext) = 1
        /\ priorityContext[1].source = "selection"
        /\ priorityContext[1].len = length(editor.selectedText)
        /\ readmeFetches = 0
        /\ branch = "selection"

\* a selection, with a message that asks for the editor and for the project
C8_Witness ==
    /\ ppc = "done"
    /\ HasSelection
    /\ needsUserAttentionContext(text)
    /\ needsReadmeContext(editor, text)
    /\ ~containsREADME(retrievedContext)
    /\ getVisibleEditorContext(editor) # <<>>

\* the message matches a user-attention pattern, in any case of letters
MatchesAttention ==
    LET low == toLowerCase(text)
        \* low holds a, then white space, then b, from atom i on
        Spaced(i, a, b) ==
            /\ i + Len(a) - 1 <= Len(low)
            /\ SubSeq(low, i, i + Len(a) - 1) = a
            /\ \E j \in (i + Len(a) + 1)..Len(low) :
                /\ low[j] = b
                /\ \A k \in (i + Len(a))..(j - 1) : low[k] = " "
    IN \/ \E i \in 1..Len(low) : low[i] = "editor"
       \/ \E i \in 1..Len(low) :
            \/ \E w \in {"open", "current", "this", "entire"} : Spaced(i, <<w>>, "file")
            \/ Spaced(i, <<"current">>, "open")
            \/ Spaced(i, <<"current", "ly">>, "open")
            \/ Spaced(i, <<"have">>, "open")

\* at most one of the three branches contributes to the output, and the
\* README is fetched in the README branch alone
OneBranchContributes ==
    ppc = "done" =>
        /\ Len(priorityContext) <= 1
        /\ (priorityContext # <<>> /\ branch = "readme") => readmeFetches = 1
        /\ branch # "readme" => readmeFetches = 0

\* the editor shows text that is not blank, of a file
ShowsContent ==
    /\ editor.visibleContent # Undefined
    /\ editor.visibleFileUri # Undefined
    /\ \E i \in 1..Len(editor.visibleContent) : editor.visibleContent[i] # " "

\* C9 as stated: without a non-empty selection, a message that matches a
\* user-attention pattern gets the visible editor content as one item and
\* nothing else: the README branch is not entered and no README is fetched.
\* In every case at most one branch contributes.
C9_AttentionOneItem ==
    /\ (ppc # "call" /\ ~HasSelection /\ MatchesAttention) =>
        /\ ppc = "done"
        /\ branch = "attention"
        /\ readmeFetches = 0
        /\ Len(priorityContext) = 1
        /\ priorityContext[1].source = "editor"
    /\ OneBranchContributes

\* C9, amended: the visible editor content is the one item of the output
\* when the editor shows text that is not blank, of a file; when no editor is
\* visible, when it has no file or when its text is blank, the output is
\* empty. In both cases the README branch is not entered and no README is
\* fetched, and in every case at most one branch contributes.
C9_AttentionBeforeReadme ==
    /\ (ppc # "call" /\ ~HasSelection /\ MatchesAttention) =>
        /\ ppc = "done"
        /\ branch = "attention"
        /\ readmeFetches = 0
        /\ IF ShowsContent
           THEN priorityContext = <<[source |-> "editor", idx |-> 1,
                                     len |-> length(editor.visibleContent),
                                     uri |-> editor.visibleFileUri]>>
           ELSE priorityContext = <<>>
    /\ OneBranchContributes

\* the message asks for the open file and for the project at once, and the
\* editor shows code
C9_Witness ==
    /\ ppc = "done"
    /\ ~HasSelection
    /\ MatchesAttention
    /\ needsReadmeContext(editor, text)
    /\ ~containsREADME(retrievedContext)
    /\ Len(priorityContext) = 1

\* the message asks for the open file and the editor shows blank text: the
\* output is empty
C9_WitnessBlank ==
    /\ ppc = "done"
    /\ ~HasSelection
    /\ MatchesAttention
    /\ editor.visibleContent # Undefined
    /\ editor.visibleFileUri # Undefined
    /\ priorityContext = <<>>

\* the message takes getPriorityContext to its README arm
ReadmeBranchApplies ==
    /\ ~HasSelection
    /\ ~MatchesAttention
    /\ needsReadmeContext(editor, text)

\* a retrieved file is called readme, or readme.<something>, in any case of
\* letters
RetrievedHasReadme ==
    \E item \in Range(retrievedContext) :
        \/ Len(item.uri) = 1 /\ lowerOf(item.uri[1]) = "readme"
        \/ Len(item.uri) >= 2 /\ lowerOf(item.uri[1]) = "readme" /\ item.uri[2] = "."

\* C11 as stated: when the README branch applies, the README is fetched and
\* returned as the single priority item, unless the retrieved context holds a
\* readme file, and then the output is empty and nothing is fetched.
C11_ReadmeReturned ==
    (ppc = "done" /\ ReadmeBranchApplies) =>
        IF RetrievedHasReadme
        THEN priorityContext = <<>> /\ readmeFetches = 0
        ELSE /\ readmeFetches = 1
             /\ Len(priorityContext) = 1
             /\ priorityContext[1].source = "editor"

\* C11, amended: when the README branch applies and the retrieved context
\* holds no readme file, the README is looked for once, and it is the single
\* priority item exactly when the workspace has one whose truncated text is
\* not empty; otherwise the output is empty. With a readme file among the
\* retrieved context the output is empty and nothing is fetched. The priority
\* context rejects, without an output, only in the README branch with no
\* readme file among the retrieved context, when the search for the README
\* or its opening fails.
C11_ReadmeReturnedWhenFound ==
    /\ (ppc = "done" /\ ReadmeBranchApplies) =>
            IF RetrievedHasReadme
            THEN priorityContext = <<>> /\ readmeFetches = 0
            ELSE /\ readmeFetches = 1
                 /\ IF readmeFound[1] # Undefined /\ readmeFound[2] > 0
                    THEN /\ Len(priorityContext) = 1
                         /\ priorityContext[1].source = "editor"
                         /\ priorityContext[1].uri = readmeFound[1]
                         /\ priorityContext[1].len = readmeFound[2]
                    ELSE priorityContext = <<>>
    /\ ppc \in {"readme", "open", "rejected"} =>
            /\ ReadmeBranchApplies
            /\ ~RetrievedHasReadme
            /\ readmeFetches = 1
            /\ priorityContext = <<>>
    /\ ppc = "open" => readmeFound[1] # Undefined

\* the README branch, no readme among the retrieved files, and the README of
\* the workspace returned
C11_Witness ==
    /\ ppc = "done"
    /\ ReadmeBranchApplies
    /\ retrievedContext # <<>>
    /\ ~RetrievedHasReadme
    /\ Len(priorityContext) = 1

\* the README branch, and the README found could not be opened
C11_WitnessRejected ==
    /\ ppc = "rejected"
    /\ readmeFound[1] # Undefined

\* a message of 101 characters about the project, without a `?`: no question
\* is extracted and no branch applies
C11_WitnessLong ==
    /\ ppc = "done"
    /\ length(text) > 100
    /\ ~HasSelection
    /\ \E i \in 1..Len(text) : text[i] = "Project"
    /\ branch = "none"

\* the README branch with Readme.md among the retrieved files
C11_WitnessRetrieved ==
    /\ ppc = "done"
    /\ ReadmeBranchApplies
    /\ RetrievedHasReadme
    /\ \E item \in Range(retrievedContext) : Len(item.uri) > 1

\* ------------------------------------ specification: getEnhancedContext

\* ConfigurationUseContext; `blended` stands for every value but these three
Strategies == {"none", "embeddings", "keyword", "blended"}

CtxBudgets == {MaxChars - 2, MaxChars}

\* a plain message, one about the editor, one about the project, one about both
CtxQueries ==
    {<<"file">>, <<"editor">>, <<"what", " ", "Project">>,
     <<"what", " ", "Project", " ", "editor">>}

\* code selected and shown; code shown; a blank editor outside any workspace;
\* no editor, in a workspace that is not on disk
CtxEditors ==
    {[selectedText |-> <<"code">>, visibleContent |-> <<"code", " ", "code">>,
      visibleFileUri |-> MainUri, workspaceRoot |-> <<"file:", "", "", "w", "MyApp">>],
     [selectedText |-> Undefined, visibleContent |-> <<"code", " ", "code">>,
      visibleFileUri |-> MainUri, workspaceRoot |-> <<"file:", "", "", "w", "MyApp">>],
     [selectedText |-> <<>>, visibleContent |-> <<" ">>,
      visibleFileUri |-> MainUri, workspaceRoot |-> Undefined],
     [selectedText |-> Undefined, visibleContent |-> Undefined,
      visibleFileUri |-> Undefined, workspaceRoot |-> <<"vscode-vfs:", "", "gh", "MyApp">>]}

CtxInit ==
    /\ opts \in [strategy : Strategies, internalUnstable : BOOLEAN, isAgentTesting : BOOLEAN,
                 localEmbeddings : BOOLEAN, symf : BOOLEAN, remoteSearch : BOOLEAN,
                 maxChars : CtxBudgets]
    /\ text \in CtxQueries
    /\ editor \in CtxEditors
    /\ prov = [p \in Providers |-> NoCall]
    /\ searchContext = <<>>
    /\ result = <<>>
    /\ cpc = "start"
    /\ IdleFuse
    /\ IdleReadme
    /\ IdlePrio
    /\ IdleFF
    /\ NewIgnoreHelper

CtxNext ==
    \/ CtxStart
    \/ SymfStatus
    \/ \E p \in {"emb", "remote"} : ProviderSettle(p)
    \/ SymfResults
    \/ SymfInner
    \/ \E i \in 1..MaxItems : SymfRead(i)
    \/ SymfGathered
    \/ SymfSettle
    \/ CtxAfterEmb
    \/ CtxAfterRemote
    \/ CtxAfterSymf
    \/ CtxJoin
    \/ PriorityCall
    \/ ReadmeFindFiles
    \/ ReadmeOpenTextDocument
    \/ CtxPriorityRejected
    \/ CtxReturn

CtxSpec == CtxInit /\ [][CtxNext]_vars

\* ------------------------------------------------ claims on getEnhancedContext

\* what a provider contributed: nothing when its call failed or was not made
Contribution(p) == IF prov[p].st = "resolved" THEN prov[p].items ELSE <<>>

\* the search-derived list the providers' answers give, a failed provider
\* counting as one that answered the empty list
SearchDerived ==
    IF opts.internalUnstable
    THEN fuseContext(Contribution("symf") \o Contribution("remote"),
                     Contribution("emb"), opts.maxChars)
    ELSE Contribution("emb") \o Contribution("remote") \o Contribution("symf")

\* C4: a provider call that fails is caught and counts as an empty answer of
\* that provider alone: no provider failure rejects the query (it rejects
\* only when the search of the README does, as it would with every provider
\* answering), the calls it waits for have been made and it goes on as soon as
\* they are settled, resolved or rejected, its result is the one the other
\* providers' answers give with the failed provider's list empty, and no
\* provider is queried a second time.
C4_GracefulProviderFailure ==
    /\ cpc = "rejected" => ppc = "rejected"
    /\ cpc \in {"awaitEmb", "awaitRemote", "awaitSymf", "join"} => ppc = "idle"
    /\ cpc = "awaitEmb" =>
            /\ prov["emb"].st # "idle"
            /\ Settled(prov["emb"]) => ENABLED CtxAfterEmb
    /\ cpc = "awaitRemote" =>
            /\ prov["remote"].st # "idle"
            /\ Settled(prov["remote"]) => ENABLED CtxAfterRemote
    /\ cpc = "awaitSymf" =>
            /\ prov["symf"].st # "idle"
            /\ Settled(prov["symf"]) => ENABLED CtxAfterSymf
    /\ cpc = "join" =>
            /\ \A p \in Providers : prov[p].st # "idle"
            /\ (\A p \in Providers : Settled(prov[p])) => ENABLED CtxJoin
    /\ \A p \in Providers : prov[p].calls <= 1 /\ prov[p].probes <= 1
    /\ cpc \in {"priority", "done"} => searchContext = SearchDerived
    /\ cpc = "done" /\ opts.strategy # "none" => result = priorityContext \o SearchDerived

\* one provider failed and another answered: the answer is in the result
C4_Witness ==
    /\ cpc = "done"
    /\ opts.internalUnstable
    /\ prov["emb"].st = "rejected"
    /\ prov["symf"].st = "rejected"
    /\ prov["remote"].st = "resolved"
    /\ \E i \in 1..Len(result) : result[i].source = "unified"

\* the same on the sequential path
C4_WitnessSequential ==
    /\ cpc = "done"
    /\ ~opts.internalUnstable
    /\ prov["emb"].st = "rejected"
    /\ prov["remote"].st = "rejected"
    /\ prov["symf"].st = "resolved"
    /\ \E i \in 1..Len(result) : result[i].source = "search"

\* C7: with strategy `none` the result is the visible editor content alone (one
\* item, or nothing when no editor content is visible or it is blank); no
\* provider is queried and neither the selection nor the README is added,
\* whatever internalUnstable is.
C7_StrategyNone ==
    (opts.strategy = "none" /\ cpc # "idle") =>
        /\ \A p \in Providers : prov[p] = NoCall
        /\ readmeFetches = 0 /\ ppc = "idle" /\ priorityContext = <<>>
        /\ cpc \in {"start", "done"}
        /\ cpc = "done" =>
            IF /\ editor.visibleContent # Undefined
               /\ editor.visibleFileUri # Undefined
               /\ \E i \in 1..Len(editor.visibleContent) : editor.visibleContent[i] # " "
            THEN result = <<[source |-> "editor", idx |-> 1,
                             len |-> length(editor.visibleContent),
                             uri |-> editor.visibleFileUri]>>
            ELSE result = <<>>

\* strategy `none` with every provider configured, code selected and shown and
\* a message about the project
C7_Witness ==
    /\ cpc = "done"
    /\ opts.strategy = "none"
    /\ opts.localEmbeddings /\ opts.symf /\ opts.remoteSearch
    /\ HasSelection
    /\ needsReadmeContext(editor, text)
    /\ Len(result) = 1

\* strategy `none` in front of a blank editor
C7_WitnessBlank ==
    /\ cpc = "done"
    /\ opts.strategy = "none"
    /\ editor.visibleContent = <<" ">>
    /\ result = <<>>

\* C12 as stated: the result is the priority context followed by the
\* search-derived list, and its total length exceeds maxChars by no more than
\* the length of the priority items.
C12_PriorityAdditive ==
    (cpc = "done" /\ opts.strategy # "none") =>
        /\ result = priorityContext \o SearchDerived
        /\ SumLen(result) <= opts.maxChars + SumLen(priorityContext)

\* C12, amended: the result is the priority context followed by the
\* search-derived list, unchanged; on the fused path (internalUnstable) that
\* list is within maxChars whatever the priority items are, so the total
\* exceeds maxChars by no more than their length. The path that does not fuse
\* applies no budget to the search-derived list.
C12_PriorityAdditiveWhenFused ==
    (cpc = "done" /\ opts.strategy # "none") =>
        /\ result = priorityContext \o SearchDerived
        /\ opts.internalUnstable =>
                SumLen(result) <= opts.maxChars + SumLen(priorityContext)

\* the fused path: a priority item in front of a fused list that fills the
\* budget
C12_Witness ==
    /\ cpc = "done"
    /\ opts.internalUnstable
    /\ opts.strategy # "none"
    /\ priorityContext # <<>>
    /\ Len(SearchDerived) >= 2
    /\ SumLen(SearchDerived) = opts.maxChars
    /\ SumLen(result) > opts.maxChars

\* in the result no item of source a comes after an item of source b
Before(a, b) ==
    \A i, j \in 1..Len(result) :
        (result[i].source = b /\ result[j].source = a) => j < i

\* where item is in list
PositionIn(list, item) == CHOOSE k \in 1..Len(list) : list[k] = item

\* in the result the items of a provider are in the order its call returned
\* them in
WithinProviderOrder ==
    \A p \in Providers : \A i, j \in 1..Len(result) :
        (i < j /\ result[i].source = sourceOf(p) /\ result[j].source = sourceOf(p)) =>
            PositionIn(prov[p].items, result[i]) < PositionIn(prov[p].items, result[j])

\* C13 as stated: in the result every local search item (source `search`)
\* precedes every remote search item (source `unified`), and the items of each
\* provider are in the order the provider returned them.
C13_LocalBeforeRemote ==
    (cpc = "done" /\ opts.strategy # "none") =>
        /\ Before("search", "unified")
        /\ WithinProviderOrder

\* C13, amended: the items of each provider are in the order the provider
\* returned them; on the fused path every local search item precedes every
\* remote search item, on the path that does not fuse every remote search item
\* precedes every local search item, the remote search being called first.
C13_CallOrder ==
    (cpc = "done" /\ opts.strategy # "none") =>
        /\ WithinProviderOrder
        /\ IF opts.internalUnstable
           THEN Before("search", "unified")
           ELSE Before("unified", "search")

\* the fused path with two local items and a remote one in the result
C13_Witness ==
    /\ cpc = "done"
    /\ opts.internalUnstable
    /\ Cardinality({i \in 1..Len(result) : result[i].source = "search"}) >= 2
    /\ Cardinality({i \in 1..Len(result) : result[i].source = "unified"}) >= 1

\* the same on the path that does not fuse
C13_WitnessSequential ==
    /\ cpc = "done"
    /\ ~opts.internalUnstable
    /\ Cardinality({i \in 1..Len(result) : result[i].source = "search"}) >= 2
    /\ Cardinality({i \in 1..Len(result) : result[i].source = "unified"}) >= 2

\* list is in the order of file paths, and of texts within a file
SortedByPathThenText(list) ==
    \A i, j \in 1..Len(list) :
        i < j =>
            \/ fsPathRank(list[i]) < fsPathRank(list[j])
            \/ fsPathRank(list[i]) = fsPathRank(list[j]) /\ textRank(list[i]) <= textRank(list[j])

NoItemOf(sources) == \A i \in 1..Len(result) : result[i].source \notin sources

C15_WitnessKeyword ==
    /\ cpc = "done"
    /\ opts.strategy = "keyword"
    /\ opts.localEmbeddings
    /\ ~NoItemOf({"search"})

C15_WitnessEmbeddings ==
    /\ cpc = "done"
    /\ opts.strategy = "embeddings"
    /\ opts.symf /\ opts.remoteSearch
    /\ ~NoItemOf({"embeddings"})

\* the providers the strategy and the configuration let take part
Participating(o) ==
    {p \in Providers :
        \/ p = "emb" /\ o.strategy # "keyword"
        \/ p = "symf" /\ o.symf /\ o.strategy # "embeddings"
        \/ p = "remote" /\ o.remoteSearch /\ o.strategy # "embeddings"}

\* the engine waits for the result of a provider
Waiting == cpc \in {"awaitEmb", "awaitRemote", "awaitSymf", "join"}

\* the search function of the provider has been called
Called(p) == prov[p].st # "idle"

\* C28 as stated: in getEnhancedContext the search of every participating
\* provider has been called before the engine waits for the result of any of
\* them.
C28_ProvidersConcurrent ==
    Waiting => \A p \in Participating(opts) : Called(p)

\* C28, amended: that holds when featureFlags.internalUnstable is set (the
\* fused path). Otherwise the providers are asked one after the other: while
\* the engine waits for the embeddings neither the remote search nor symf has
\* been called, while it waits for the remote search the embeddings are settled
\* and symf has not been called, and while it waits for symf the two others
\* are settled.
C28_ConcurrentWhenFused ==
    /\ (opts.internalUnstable /\ Waiting) =>
            /\ cpc \in {"awaitRemote", "join"}
            /\ \A p \in Participating(opts) : Called(p)
    /\ (~opts.internalUnstable /\ Waiting) =>
            /\ cpc # "join"
            /\ cpc = "awaitEmb" => ~Called("remote") /\ ~Called("symf")
            /\ cpc = "awaitRemote" =>
                    /\ ~Called("emb") \/ Settled(prov["emb"])
                    /\ ~Called("symf")
            /\ cpc = "awaitSymf" =>
                    \A p \in {"emb", "remote"} : ~Called(p) \/ Settled(prov[p])

\* the fused path waits for the remote search with the three searches in
\* flight
C28_Witness ==
    /\ opts.internalUnstable
    /\ cpc = "awaitRemote"
    /\ prov["emb"].st = "pending"
    /\ prov["symf"].st \in {"status", "pending", "inner", "reading", "gathered"}
    /\ prov["remote"].st = "pending"

\* the sequential path waits for the embeddings: the remote search and symf
\* take part and have not been called
C28_WitnessSequential ==
    /\ ~opts.internalUnstable
    /\ cpc = "awaitEmb"
    /\ prov["emb"].st = "pending"
    /\ Participating(opts) = Providers
    /\ ~Called("remote") /\ ~Called("symf")

\* ------------------------------------ specification: FeatureFlagProvider

FFInit ==
    /\ NewProvider
    /\ hasWindow \in BOOLEAN
    /\ keepReturned = FALSE
    /\ disableFeatureFlags \in BOOLEAN
    /\ IdleFuse
    /\ IdleInput
    /\ IdleReadme
    /\ IdlePrio
    /\ IdleCtx
    /\ NewIgnoreHelper

FFNext ==
    \/ \E f \in FlagNames : \E e \in Endpoints : GetFromCache(f, e)
    \/ \E f \in FlagNames : EvaluateFeatureFlag(f)
    \/ \E req \in BagToSet(inflight) : \E v \in EvaluateAnswers :
            EvaluateDone(req, v)
    \/ SyncAuthStatus
    \/ \E req \in BagToSet(inflight) : \E data \in ApiAnswers : RefreshDone(req, data)
    \/ \E e \in Endpoints : \E p \in Prefixes : \E c \in Callbacks :
            OnFeatureFlagChanged(e, p, c)
    \/ \E c \in Callbacks : Unsubscribe(c)
    \/ \E t \in timers : TimerFires(t)
    \/ Tick
    \/ \E e \in Endpoints : SetEndpoint(e)

FFSpec == FFInit /\ [][FFNext]_vars

\* ------------------------------------------------ claims on FeatureFlagProvider

\* the serialization of the flags a registration is about
MatchingSnapshot(ff, reg) == computeFeatureFlagSnapshot(ff, reg.endpoint, reg.prefix)

\* C5: whenever the flags are refreshed or a flag is newly evaluated, the
\* callback of each active subscription (endpoint, prefixFilter) is fired if
\* and only if the serialization of the flags of that endpoint whose name
\* starts with prefixFilter differs from the serialization seen at the previous
\* notification, or at subscription time.
C5_SnapshotDiffNotification ==
    [][notified'.done =>
        \A c \in Callbacks :
            regs[c].active =>
                ((c \in notified'.fired) <=>
                    (MatchingSnapshot(featureFlags', regs[c]) # regs[c].seen))]_vars

\* C6: the refresh timer is armed only while a subscription is active: when
\* every function returned by onFeatureFlagChanged has been called, no timer
\* is pending.
C6_TimerOnlyWhileSubscribed ==
    (\A c \in Callbacks : ~regs[c].active) =>
        /\ timers = {}
        /\ nextRefreshTimeout = 0

\* C26: once the function onFeatureFlagChanged returned for a callback has
\* been called, no refresh and no evaluation invokes that callback, and when
\* every callback has been removed no subscription is left.
C26_UnsubscribedNeverInvoked ==
    [][/\ \A c \in notified'.fired : regs[c].active
       /\ (\A c \in Callbacks : ~regs'[c].active) => DOMAIN subscriptions' = {}]_vars

\* C27: a callback registered and not unsubscribed stays in a subscription
\* whatever is registered after it, for the same endpoint and prefix or for
\* another endpoint with the same prefix, and it is invoked at each
\* notification at which the flags of its own endpoint and prefix have changed.
C27_NoDisplacement ==
    [][/\ \A c \in Callbacks :
            regs'[c].active =>
                \E k \in DOMAIN subscriptions' : c \in subscriptions'[k].callbacks
       /\ notified'.done =>
            \A c \in Callbacks :
                (regs[c].active /\ MatchingSnapshot(featureFlags', regs[c]) # regs[c].seen)
                    => c \in notified'.fired]_vars

\* ------------------------------------------- specification: IgnoreHelper

IgnoreInit ==
    /\ NewIgnoreHelper
    /\ IdleFuse
    /\ IdleInput
    /\ IdleReadme
    /\ IdlePrio
    /\ IdleCtx
    /\ IdleFF

IgnoreNext ==
    \/ \E active \in BOOLEAN : SetActiveState(active)
    \/ \E call \in SetIgnoreFilesCalls : SetIgnoreFiles(call[1], call[2])
    \/ \E workspaceRoot \in IgnoreRoots : ClearIgnoreFiles(workspaceRoot)
    \/ \E uri \in QueryUris : IsIgnored(uri)

IgnoreSpec == IgnoreInit /\ [][IgnoreNext]_vars

\* ------------------------------------------------------ claims on IgnoreHelper

\* the rules registered for a root, none when it is not registered
registeredRules(root) ==
    IF uriToString(root) \in DOMAIN workspaceIgnores
    THEN workspaceIgnores[uriToString(root)] ELSE <<>>

\* C16: while the feature is inactive isIgnored returns false for every URI,
\* without throwing; and it returns false for every URI whose scheme is not
\* `file`, whatever rules are registered.
C16_InactiveOrNotFile ==
    (lastCall.op = "isIgnored" /\ (~isActive \/ lastCall.uri.scheme # "file"))
        => lastCall.outcome = "false"

\* inactive, `.env` of a registered root asked about: false
C16_Witness ==
    /\ ~isActive
    /\ registeredRules(RootW) # <<>>
    /\ lastCall.op = "isIgnored"
    /\ lastCall.uri = fileUri(<<"w", ".env">>)
    /\ lastCall.outcome = "false"
    /\ isIgnored(TRUE, workspaceIgnores, lastCall.uri) = "true"

\* active, a relative URI of another scheme asked about: false
C16_WitnessNotFile ==
    /\ isActive
    /\ lastCall.op = "isIgnored"
    /\ lastCall.uri = URI("vfs", <<".env">>)
    /\ lastCall.outcome = "false"

\* the rules setIgnoreFiles gives /w for its ignore file with the line build/
ScenarioRules == <<<<".env">>, <<"build", "/">>>>

\* the list without its element i
WithoutFile(files, i) == SubSeq(files, 1, i - 1) \o SubSeq(files, i + 1, Len(files))

\* a file URI that lies in the folder, the folder itself excluded
Inside(uri, folder) == uri # folder /\ uriHasPrefix(uri, folder)

\* what the rules built from the files answer for a URI inside the root
AnswerOf(root, files, uri) == ignores(buildRules(root, files).rules, relativePath(root, uri))

\* a rule without its leading `!`
Unsigned(rule) == IF startsWith(rule, <<"!">>) THEN Tail(rule) ELSE rule

\* C17: with the feature active, root /w and the ignore file /w/.cody/ignore
\* holding `build/`, /w/build/out.js is ignored and /w/src/out.js is not.
\* Every rule of an ignore file <D>/.cody/ignore starts with the path of D
\* relative to the workspace root (nothing is put before it when D is the
\* root), and the file changes the answer for no path of the root outside D.
C17_RulesRelativeToDirectory ==
    /\ (isActive /\ lastCall.op = "isIgnored" /\ registeredRules(RootW) = ScenarioRules) =>
           /\ lastCall.uri = fileUri(<<"w", "build", "out.js">>) => lastCall.outcome = "true"
           /\ lastCall.uri = fileUri(<<"w", "src", "out.js">>) => lastCall.outcome = "false"
    /\ (lastCall.op = "setIgnoreFiles" /\ lastCall.outcome = "done") =>
           \A i \in 1..Len(lastCall.files) :
               LET root == lastCall.uri
                   file == lastCall.files[i]
                   dir == ignoreFileEffectiveDirectory(file.uri)
                   prefix == relativePath(root, dir)
               IN  /\ \A k \in 1..Len(ignoreFileRules(root, file)) :
                          LET rule == Unsigned(ignoreFileRules(root, file)[k])
                          IN  IF dir.path = root.path
                              THEN rule \in {<<"build", "/">>, <<"out.js">>, <<".env">>,
                                            <<"build", "/", "out.js">>}
                              ELSE startsWith(rule, prefix \o <<"/">>)
                   /\ \A uri \in QueryUris :
                          (Inside(uri, root) /\ ~uriHasPrefix(uri, dir)) =>
                              AnswerOf(root, lastCall.files, uri)
                                  = AnswerOf(root, WithoutFile(lastCall.files, i), uri)

\* the scenario: /w/build/out.js asked about and ignored
C17_Witness ==
    /\ isActive
    /\ lastCall.op = "isIgnored"
    /\ registeredRules(RootW) = ScenarioRules
    /\ lastCall.uri = fileUri(<<"w", "build", "out.js">>)
    /\ lastCall.outcome = "true"

\* a nested ignore file registered for /w: it ignores /w/sub/build/out.js and
\* leaves /w/build/out.js alone
C17_WitnessNested ==
    /\ lastCall.op = "setIgnoreFiles"
    /\ lastCall.outcome = "done"
    /\ lastCall.uri = RootW
    /\ Len(lastCall.files) = 1
    /\ ignoreFileEffectiveDirectory(lastCall.files[1].uri) = RootSub
    /\ isIgnored(TRUE, workspaceIgnores, fileUri(<<"w", "sub", "build", "out.js">>)) = "true"
    /\ isIgnored(TRUE, workspaceIgnores, fileUri(<<"w", "build", "out.js">>)) = "false"

\* C18: setIgnoreFiles(root, files) that returns leaves the root with the
\* rules built from `files` alone, the default rule `.env` first, whatever
\* rules it had before; the rules of the other roots and the active state,
\* all that isIgnored reads besides, are unchanged.
C18_SetReplaces ==
    [][(lastCall'.op = "setIgnoreFiles" /\ lastCall'.outcome = "done") =>
          LET key == uriToString(lastCall'.uri)
              alone == buildRules(lastCall'.uri, lastCall'.files).rules
          IN  /\ key \in DOMAIN workspaceIgnores'
              /\ workspaceIgnores'[key] = alone
              /\ Head(alone) = <<".env">>
              /\ \A other \in DOMAIN workspaceIgnores \ {key} :
                     /\ other \in DOMAIN workspaceIgnores'
                     /\ workspaceIgnores'[other] = workspaceIgnores[other]
              /\ DOMAIN workspaceIgnores' = DOMAIN workspaceIgnores \cup {key}
              /\ isActive' = isActive]_vars

\* a root that had other rules was given new ones, another root is registered,
\* and a rule the root had before no longer ignores
C18_Witness ==
    /\ lastCall.op = "setIgnoreFiles"
    /\ lastCall.outcome = "done"
    /\ lastCall.replaced
    /\ lastCall.uri = RootW
    /\ registeredRules(RootSub) # <<>>
    /\ registeredRules(RootW) = <<<<".env">>, <<"sub", "/", "build", "/">>>>
    /\ isIgnored(TRUE, workspaceIgnores, fileUri(<<"w", "build", "out.js">>)) = "false"

\* an ignore file of the list has a URI setIgnoreFiles refuses
SomeFileRefused(files) ==
    \E i \in 1..Len(files) :
        \/ ~startsWith(files[i].uri.path, <<"/">>)
        \/ ~endsWith(files[i].uri.path, CODY_IGNORE_URI_PATH)

IsRelative(uri) == ~startsWith(uri.path, <<"/">>)

\* C19 as stated: setIgnoreFiles and isIgnored throw when given a relative
\* URI, and setIgnoreFiles throws when given an ignore file whose path does
\* not end with .cody/ignore.
C19_FailFast ==
    /\ (lastCall.op = "setIgnoreFiles"
            /\ (IsRelative(lastCall.uri) \/ SomeFileRefused(lastCall.files)))
           => lastCall.outcome = "throws"
    /\ (lastCall.op = "isIgnored" /\ IsRelative(lastCall.uri))
           => lastCall.outcome = "throws"

\* C19, amended: setIgnoreFiles throws exactly when the root is relative or an
\* ignore file is relative or does not end with .cody/ignore, whatever the
\* scheme of the root; isIgnored throws on a relative URI exactly when the
\* feature is active and the scheme is `file`, and returns false on a
\* relative URI otherwise.
C19_FailFastWhenChecked ==
    /\ lastCall.op = "setIgnoreFiles" =>
           /\ lastCall.outcome \in {"throws", "done"}
           /\ lastCall.outcome = "throws"
                  <=> (IsRelative(lastCall.uri) \/ SomeFileRefused(lastCall.files))
    /\ (lastCall.op = "isIgnored" /\ IsRelative(lastCall.uri)) =>
           lastCall.outcome = IF isActive /\ lastCall.uri.scheme = "file"
                              THEN "throws" ELSE "false"
    /\ (lastCall.op = "isIgnored" /\ lastCall.uri.scheme # "file") =>
           lastCall.outcome # "throws"

\* active, a relative file URI asked about: isIgnored throws
C19_Witness ==
    /\ isActive
    /\ lastCall.op = "isIgnored"
    /\ lastCall.uri.scheme = "file"
    /\ IsRelative(lastCall.uri)
    /\ lastCall.outcome = "throws"

\* setIgnoreFiles threw on an ignore file with another name, on a relative
\* root; it accepted a root of another scheme
C19_WitnessOtherName ==
    /\ lastCall.op = "setIgnoreFiles"
    /\ ~IsRelative(lastCall.uri)
    /\ Len(lastCall.files) = 1
    /\ ~IsRelative(lastCall.files[1].uri)
    /\ lastCall.outcome = "throws"

C19_WitnessRelativeRoot ==
    /\ lastCall.op = "setIgnoreFiles"
    /\ IsRelative(lastCall.uri)
    /\ lastCall.outcome = "throws"

C19_WitnessOtherScheme ==
    /\ lastCall.op = "setIgnoreFiles"
    /\ lastCall.uri.scheme # "file"
    /\ lastCall.outcome = "done"

\* the registered roots, as keys, that are a path-prefix of the URI
RootsAbove(uri) == {k \in DOMAIN workspaceIgnores : uriHasPrefix(uri, parseUri(k))}

\* C20: with the feature active, isIgnored answers for an absolute file URI
\* what the rules of the shortest registered root above it say of its path
\* relative to that root; with no registered root above it, it answers true
\* exactly when the bare filename is `.env`, the default rule.
C20_ShortestRootDecides ==
    (/\ lastCall.op = "isIgnored"
     /\ isActive
     /\ lastCall.uri.scheme = "file"
     /\ ~IsRelative(lastCall.uri)) =>
        IF RootsAbove(lastCall.uri) = {}
        THEN lastCall.outcome = "true" <=> uriBasename(lastCall.uri) = <<".env">>
        ELSE \E k \in RootsAbove(lastCall.uri) :
                 /\ \A d \in RootsAbove(lastCall.uri) : length(k) <= length(d)
                 /\ lastCall.outcome
                        = ignores(workspaceIgnores[k], relativePath(parseUri(k), lastCall.uri))

\* /w and /w/sub registered, the rules of /w/sub alone would ignore the file,
\* those of /w do not: not ignored
C20_Witness ==
    /\ isActive
    /\ lastCall.op = "isIgnored"
    /\ lastCall.uri = fileUri(<<"w", "sub", "build", "out.js">>)
    /\ registeredRules(RootW) = <<<<".env">>>>
    /\ registeredRules(RootSub) = <<<<".env">>, <<"build", "/">>>>
    /\ lastCall.outcome = "false"

\* /w/sub registered and no registered root above /w/.env: ignored, by its
\* bare filename
C20_WitnessNoRoot ==
    /\ isActive
    /\ lastCall.op = "isIgnored"
    /\ lastCall.uri = fileUri(<<"w", ".env">>)
    /\ RootsAbove(lastCall.uri) = {}
    /\ registeredRules(RootSub) # <<>>
    /\ lastCall.outcome = "true"

\* the rule matches the path itself, a file
MatchesFile(rule, path) == ruleMatches(rule, split(path, "/"), FALSE)

\* the rule matches a directory the path lies under
MatchesAbove(rule, path) ==
    LET segs == split(path, "/")
    IN  \E n \in 1..(Len(segs) - 1) : ruleMatches(rule, SubSeq(segs, 1, n), TRUE)

\* a directory the path lies under is ignored by the rules
UnderIgnored(rules, path) ==
    LET segs == split(path, "/")
    IN  Len(segs) > 1 /\ testPath(rules, SubSeq(segs, 1, Len(segs) - 1), TRUE)

\* the paths, relative to the root, of the URIs asked about that lie in it
PathsIn(root) ==
    {relativePath(root, uri) : uri \in {u \in QueryUris : Inside(u, root)}}

\* the positions of the `!` rules in the rules
InvertedAt(rules) == {j \in 2..Len(rules) : startsWith(rules[j], <<"!">>)}

\* C21 as stated: a `!` rule that comes after the other rules makes isIgnored
\* false for the paths it matches, itself or by a directory above, and
\* leaves the result for every other path as the rules before it give it.
C21_InvertedRuleUnignores ==
    (lastCall.op = "setIgnoreFiles" /\ lastCall.outcome = "done") =>
        LET rules == registeredRules(lastCall.uri)
        IN  \A j \in InvertedAt(rules) : \A path \in PathsIn(lastCall.uri) :
                ignores(SubSeq(rules, 1, j), path) =
                    IF MatchesFile(rules[j], path) \/ MatchesAbove(rules[j], path)
                    THEN "false"
                    ELSE ignores(SubSeq(rules, 1, j - 1), path)

\* C21, amended: a `!` rule that comes after the other rules makes isIgnored
\* false for the paths it matches, except those under a directory that is
\* ignored, which stay ignored; it leaves the result unchanged for every path
\* that neither it nor a directory above it matches, and it makes no path
\* ignored that was not.
C21_InvertedRuleUnlessUnderIgnored ==
    (lastCall.op = "setIgnoreFiles" /\ lastCall.outcome = "done") =>
        LET rules == registeredRules(lastCall.uri)
        IN  \A j \in InvertedAt(rules) : \A path \in PathsIn(lastCall.uri) :
                LET before == ignores(SubSeq(rules, 1, j - 1), path)
                    after == ignores(SubSeq(rules, 1, j), path)
                IN  /\ MatchesFile(rules[j], path) =>
                           after = IF UnderIgnored(SubSeq(rules, 1, j), path)
                                   THEN "true" ELSE "false"
                    /\ (~MatchesFile(rules[j], path) /\ ~MatchesAbove(rules[j], path)) =>
                           after = before
                    /\ after = "true" => before = "true"

\* out.js ignored in /w and inverted in /w/sub: /w/sub/out.js is asked about
\* and not ignored, /w/src/out.js is ignored
C21_Witness ==
    /\ isActive
    /\ lastCall.op = "isIgnored"
    /\ lastCall.uri = fileUri(<<"w", "sub", "out.js">>)
    /\ registeredRules(RootW) = <<<<".env">>, <<"out.js">>, <<"!", "sub", "/", "out.js">>>>
    /\ lastCall.outcome = "false"
    /\ isIgnored(TRUE, workspaceIgnores, fileUri(<<"w", "src", "out.js">>)) = "true"

\* build/ ignored and build/out.js inverted: /w/build/out.js stays ignored
C21_WitnessUnderIgnored ==
    /\ isActive
    /\ lastCall.op = "isIgnored"
    /\ lastCall.uri = fileUri(<<"w", "build", "out.js">>)
    /\ Len(registeredRules(RootW)) >= 3
    /\ registeredRules(RootW)[3] = <<"!", "build", "/", "out.js">>
    /\ lastCall.outcome = "true"

\* ------------------- specification: FeatureFlagProvider, the values returned
(***************************************************************************)
(* The provider with no subscription made, and a caller that keeps what    *)
(* getFromCache and evaluateFeatureFlag return; the process runs with or   *)
(* without BENCHMARK_DISABLE_FEATURE_FLAGS.                                *)
(***************************************************************************)

FFCacheInit ==
    /\ NewProvider
    /\ hasWindow = TRUE
    /\ keepReturned = TRUE
    /\ disableFeatureFlags \in BOOLEAN
    /\ IdleFuse
    /\ IdleInput
    /\ IdleReadme
    /\ IdlePrio
    /\ IdleCtx
    /\ NewIgnoreHelper

FFCacheNext ==
    \/ \E f \in FlagNames : \E e \in Endpoints : GetFromCache(f, e)
    \/ \E f \in FlagNames : EvaluateFeatureFlag(f)
    \/ \E req \in BagToSet(inflight) : \E v \in EvaluateAnswers :
            EvaluateDone(req, v)
    \/ SyncAuthStatus
    \/ \E req \in BagToSet(inflight) : \E data \in ApiAnswers : RefreshDone(req, data)
    \/ Tick
    \/ \E e \in Endpoints : SetEndpoint(e)

FFCacheSpec == FFCacheInit /\ [][FFCacheNext]_vars

\* ------------------------------- claims on the values FeatureFlagProvider returns

\* the value the cache holds for a flag of an endpoint, read entry by entry
Cached(ff, e, f) ==
    IF ~ff[e].defined \/ \A i \in 1..Len(ff[e].flags) : ff[e].flags[i].name # f
    THEN "undefined"
    ELSE IF \E i \in 1..Len(ff[e].flags) :
                ff[e].flags[i].name = f /\ ff[e].flags[i].value
         THEN "true" ELSE "false"

\* the requests of one kind in flight
InFlight(fl, op) ==
    BagCardinality([r \in {x \in BagToSet(fl) : x.op = op} |-> CopiesIn(r, fl)])

\* C22: getFromCache(flag, endpoint) returns in the step of the call, whatever
\* is in flight, the value the cache holds for that endpoint and flag
\* (undefined when absent) and leaves the cache as it is; it starts one refresh
\* of the current endpoint when the last refresh is more than one hour old, and
\* starts none when it is one hour old or less.
C22_GetFromCacheNonBlocking ==
    [][returned'.op = "getFromCache" =>
        /\ returned'.value = Cached(featureFlags, returned'.endpoint, returned'.flag)
        /\ featureFlags' = featureFlags
        /\ sinceUpdated' = sinceUpdated
        /\ IF sinceUpdated > ONE_HOUR
           THEN inflight' = inflight (+) SetToBag({[op |-> "refresh", endpoint |-> endpoint,
                                                    flag |-> <<>>, auth |-> "current",
                                                    sync |-> FALSE]})
           ELSE inflight' = inflight]_vars

\* a stale value of the endpoint left is returned, and a refresh of the
\* current endpoint is in flight
C22_Witness ==
    /\ returned.op = "getFromCache"
    /\ returned.value = "true"
    /\ returned.endpoint # endpoint
    /\ sinceUpdated > ONE_HOUR
    /\ inflight = SetToBag({[op |-> "refresh", endpoint |-> endpoint, flag |-> <<>>,
                              auth |-> "current", sync |-> FALSE]})

\* a value exactly one hour old is returned and no refresh is started
C22_WitnessFresh ==
    /\ returned.op = "getFromCache"
    /\ returned.value = "true"
    /\ sinceUpdated = ONE_HOUR
    /\ inflight = EmptyBag

\* an evaluation answered in this step: its request leaves the requests in
\* flight and no request is started
Answered(req) ==
    /\ req.op = "evaluate"
    /\ BagIn(req, inflight)
    /\ inflight' = inflight (-) SetToBag({req})
    /\ returned'.op = "evaluateFeatureFlag"
    /\ returned'.flag = req.flag

\* evaluateFeatureFlag serves the cache: no evaluation is started when the
\* current endpoint has a value for the flag, the value is returned in the step
\* of the call and the cache stays as it is; an evaluation is started only for
\* a flag the current endpoint has no value for, one at a time
ServesCache ==
    /\ InFlight(inflight', "evaluate") <= InFlight(inflight, "evaluate") + 1
    /\ \A f \in FlagNames :
          LET req == [op |-> "evaluate", endpoint |-> endpoint, flag |-> f,
                      auth |-> "current", sync |-> FALSE]
          IN CopiesIn(req, inflight') > CopiesIn(req, inflight) =>
                /\ Cached(featureFlags, endpoint, f) = "undefined"
                /\ returned' = NoReturn
                /\ featureFlags' = featureFlags
    /\ (returned'.op = "evaluateFeatureFlag"
            /\ InFlight(inflight', "evaluate") = InFlight(inflight, "evaluate")) =>
          /\ returned'.endpoint = endpoint
          /\ returned'.value # "undefined"
          /\ returned'.value = Cached(featureFlags, endpoint, returned'.flag)
          /\ featureFlags' = featureFlags
          /\ ~notified'.done

\* C23 as stated: evaluateFeatureFlag(flag) serves the cache when the current
\* endpoint has a value for the flag and performs no remote evaluation;
\* otherwise it performs one remote evaluation, stores the result under the
\* current endpoint, notifies and returns the stored value, so that
\* getFromCache(flag) called next returns the same value.
C23_EvaluateStoresUnderCurrentEndpoint ==
    [][/\ ServesCache
       /\ \A req \in BagToSet(inflight) :
            Answered(req) =>
                /\ notified'.done
                /\ returned'.value \in {"true", "false"}
                /\ Cached(featureFlags', endpoint', req.flag) = returned'.value]_vars

\* with BENCHMARK_DISABLE_FEATURE_FLAGS set evaluateFeatureFlag returns false
\* in the step of the call, whatever the cache holds: no request is started,
\* none is in flight for an evaluation, the cache stays as it is and nobody
\* is notified
ReturnsFalseWhenDisabled ==
    /\ InFlight(inflight, "evaluate") = 0
    /\ returned'.op = "evaluateFeatureFlag" =>
          /\ returned'.endpoint = endpoint
          /\ returned'.value = "false"
          /\ inflight' = inflight
          /\ featureFlags' = featureFlags
          /\ ~notified'.done

\* C23, amended: unless BENCHMARK_DISABLE_FEATURE_FLAGS is set, and then
\* false is returned at once, evaluateFeatureFlag serves the cache or
\* performs one remote evaluation; the result is stored under the endpoint
\* that was current when evaluateFeatureFlag was called, whatever the
\* endpoint is when the answer arrives; the other values of the cache stay
\* as they are, and getFromCache(flag, that endpoint) called next returns the
\* value returned.
C23_EvaluateStoresUnderCallEndpoint ==
    [][/\ IF disableFeatureFlags THEN ReturnsFalseWhenDisabled ELSE ServesCache
       /\ \A req \in BagToSet(inflight) :
            Answered(req) =>
                /\ notified'.done
                /\ returned'.endpoint = req.endpoint
                /\ returned'.value \in {"true", "false"}
                /\ Cached(featureFlags', req.endpoint, req.flag) = returned'.value
                /\ \A e \in Endpoints : \A f \in FlagNames :
                        (e # req.endpoint \/ f # req.flag) =>
                            Cached(featureFlags', e, f) = Cached(featureFlags, e, f)]_vars

\* an evaluation started under e1 is answered after the endpoint became e2:
\* true is stored under e1 and returned, e2 has no value for the flag
C23_Witness ==
    /\ ~disableFeatureFlags
    /\ returned.op = "evaluateFeatureFlag"
    /\ notified.done
    /\ returned.endpoint # endpoint
    /\ returned.value = "true"
    /\ Cached(featureFlags, returned.endpoint, returned.flag) = "true"
    /\ Cached(featureFlags, endpoint, returned.flag) = "undefined"

\* a value of the cache is served: nothing is in flight and nobody is notified
C23_WitnessCached ==
    /\ ~disableFeatureFlags
    /\ returned.op = "evaluateFeatureFlag"
    /\ ~notified.done
    /\ returned.value = "false"
    /\ inflight = EmptyBag

\* BENCHMARK_DISABLE_FEATURE_FLAGS is set: false is returned for a flag the
\* cache holds true for
C23_WitnessDisabled ==
    /\ disableFeatureFlags
    /\ returned.op = "evaluateFeatureFlag"
    /\ returned.value = "false"
    /\ Cached(featureFlags, endpoint, returned.flag) = "true"

\* C24: when the remote evaluation of a flag answers an error or null,
\* evaluateFeatureFlag returns false, a value and not the error, false is what
\* the cache then holds for the flag, and no request is started in place of the
\* one that failed.
C24_FailClosed ==
    [][(returned'.op = "evaluateFeatureFlag" /\ returned'.answer \in {"null", "error"}) =>
        /\ returned'.value = "false"
        /\ Cached(featureFlags', returned'.endpoint, returned'.flag) = "false"
        /\ \E req \in BagToSet(inflight) :
              /\ req.op = "evaluate"
              /\ req.endpoint = returned'.endpoint
              /\ req.flag = returned'.flag
              /\ inflight' = inflight (-) SetToBag({req})
        /\ requests' = requests]_vars

\* the evaluation answered an error: false is returned and cached
C24_Witness ==
    /\ returned.op = "evaluateFeatureFlag"
    /\ returned.answer = "error"
    /\ returned.value = "false"
    /\ Cached(featureFlags, returned.endpoint, returned.flag) = "false"

\* the evaluation answered null while a flag of the endpoint was cached as true
C24_WitnessNull ==
    /\ returned.op = "evaluateFeatureFlag"
    /\ returned.answer = "null"
    /\ returned.value = "false"
    /\ \E f \in FlagNames : Cached(featureFlags, returned.endpoint, f) = "true"

\* the syncAuthStatus called last has resolved: the refresh it awaits is not
\* in flight
SyncResolved(fl) == \A r \in BagToSet(fl) : ~(r.sync /\ r.auth = "current")

\* the refreshes in flight a call of syncAuthStatus awaits
AwaitedBySync(fl) ==
    BagCardinality([r \in {x \in BagToSet(fl) : x.sync} |-> CopiesIn(r, fl)])

\* C25: syncAuthStatus discards the cached values of every endpoint and starts
\* a refresh of the current endpoint; once it has resolved, the cache takes no
\* value from a request sent before the auth change, whatever was in flight
\* when it was called, so that getFromCache and evaluateFeatureFlag serve only
\* values obtained after the change.
C25_SyncAuthStatusInvalidates ==
    [][/\ AwaitedBySync(inflight') > AwaitedBySync(inflight) =>
            /\ \A e \in Endpoints : \A f \in FlagNames :
                    Cached(featureFlags', e, f) = "undefined"
            /\ CopiesIn([op |-> "refresh", endpoint |-> endpoint, flag |-> <<>>,
                         auth |-> "current", sync |-> TRUE], inflight') = 1
       /\ \A req \in BagToSet(inflight) :
            (/\ SyncResolved(inflight)
             /\ req.auth = "previous"
             /\ inflight' = inflight (-) SetToBag({req})) =>
                \A e \in Endpoints : \A f \in FlagNames :
                    Cached(featureFlags', e, f) = Cached(featureFlags, e, f)]_vars

\* C30 as stated: when the fetch of a refresh answers an error, the flags
\* cached for the current endpoint become the empty set, the time of the
\* refresh is recorded and the subscribers are notified; getFromCache called
\* next returns undefined for every flag of the current endpoint, and
\* getFromCache starts no refresh while the last refresh is one hour old or
\* less.
C30_FailedRefreshEmptiesCurrentEndpoint ==
    [][/\ (returned'.op = "refreshFeatureFlags" /\ returned'.answer = "error") =>
            /\ featureFlags'[endpoint'] = EmptyFlags
            /\ \A f \in FlagNames : Cached(featureFlags', endpoint', f) = "undefined"
            /\ sinceUpdated' = 0
            /\ notified'.done
       /\ (/\ returned.op = "refreshFeatureFlags" /\ returned.answer = "error"
           /\ returned'.op = "getFromCache"
           /\ returned'.endpoint = endpoint) =>
            /\ returned'.value = "undefined"
            /\ inflight' = inflight
       /\ (returned'.op = "getFromCache" /\ sinceUpdated <= ONE_HOUR) =>
            inflight' = inflight]_vars

\* C30, amended: when the fetch of a refresh answers an error, the flags
\* cached for the endpoint that was current when the refresh was started
\* become the empty set, whatever the endpoint is when the answer arrives; the
\* flags of the other endpoints stay, the time of the refresh is recorded and
\* the subscribers are notified; getFromCache called next returns undefined
\* for every flag of that endpoint, and getFromCache starts no refresh while
\* the last refresh is one hour old or less.
C30_FailedRefreshEmptiesCache ==
    [][/\ (returned'.op = "refreshFeatureFlags" /\ returned'.answer = "error") =>
            /\ \E req \in BagToSet(inflight) :
                  /\ req.op = "refresh"
                  /\ req.endpoint = returned'.endpoint
                  /\ inflight' = inflight (-) SetToBag({req})
            /\ featureFlags'[returned'.endpoint] = EmptyFlags
            /\ \A e \in Endpoints \ {returned'.endpoint} : featureFlags'[e] = featureFlags[e]
            /\ sinceUpdated' = 0
            /\ notified'.done
       /\ (/\ returned.op = "refreshFeatureFlags" /\ returned.answer = "error"
           /\ returned'.op = "getFromCache"
           /\ returned'.endpoint = returned.endpoint) =>
            /\ returned'.value = "undefined"
            /\ inflight' = inflight
       /\ (returned'.op = "getFromCache" /\ sinceUpdated <= ONE_HOUR) =>
            inflight' = inflight]_vars

\* the second refresh of e1 answered an error: nothing is cached for e1 and
\* the cache is fresh
C30_Witness ==
    /\ returned.op = "refreshFeatureFlags"
    /\ returned.answer = "error"
    /\ requests = 2
    /\ sinceUpdated = 0
    /\ featureFlags[returned.endpoint] = EmptyFlags
    /\ notified.done

\* the endpoint changed while the refresh was in flight: the failed refresh
\* emptied the flags of the endpoint left, and the current endpoint keeps a
\* value
C30_WitnessEndpointChanged ==
    /\ returned.op = "refreshFeatureFlags"
    /\ returned.answer = "error"
    /\ returned.endpoint # endpoint
    /\ featureFlags[returned.endpoint] = EmptyFlags
    /\ \E f \in FlagNames : Cached(featureFlags, endpoint, f) = "true"

\* getFromCache an hour after the failed refresh: undefined is returned and no
\* refresh is started
C30_WitnessNextHour ==
    /\ returned.op = "getFromCache"
    /\ returned.value = "undefined"
    /\ featureFlags[returned.endpoint] = EmptyFlags
    /\ sinceUpdated = ONE_HOUR
    /\ inflight = EmptyBag

\* --------------------------- specification: FeatureFlagProvider, its timer
(***************************************************************************)
(* The operations that arm, clear or fire a timer and those that start or  *)
(* answer a refresh, under one endpoint: evaluateFeatureFlag's own request *)
(* and the change of endpoint are left to FFSpec.                          *)
(***************************************************************************)

FFTimerInit ==
    /\ NewProvider
    /\ hasWindow \in BOOLEAN
    /\ keepReturned = FALSE
    /\ disableFeatureFlags = FALSE
    /\ IdleFuse
    /\ IdleInput
    /\ IdleReadme
    /\ IdlePrio
    /\ IdleCtx
    /\ NewIgnoreHelper

FFTimerNext ==
    \/ \E f \in FlagNames : GetFromCache(f, endpoint)
    \/ SyncAuthStatus
    \/ \E req \in BagToSet(inflight) : \E data \in ApiAnswers : RefreshDone(req, data)
    \/ \E e \in Endpoints : \E p \in Prefixes : \E c \in Callbacks :
            OnFeatureFlagChanged(e, p, c)
    \/ \E c \in Callbacks : Unsubscribe(c)
    \/ \E t \in timers : TimerFires(t)
    \/ Tick

FFTimerSpec == FFTimerInit /\ [][FFTimerNext]_vars

\* ------------------------------- claims on the timer of FeatureFlagProvider

\* C29: at most one timer is pending at any time, and it is the one
\* nextRefreshTimeout holds: a timer is armed only once the one before it has
\* been cleared or has expired, whatever subscriptions, calls of the functions
\* returned, refreshes started by getFromCache, by syncAuthStatus or by a
\* timer, and answers of refreshes come in between.
C29_OneTimerPending ==
    /\ Cardinality(timers) <= 1
    /\ \A t \in timers : t.id = nextRefreshTimeout

\* the answer of a refresh armed the timer while another refresh is in flight
C29_Witness ==
    /\ \E t \in timers : t.kind = "refresh"
    /\ InFlight(inflight, "refresh") >= 1
    /\ DOMAIN subscriptions # {}

\* a timer armed by the answer of a refresh has expired and started a refresh,
\* nextRefreshTimeout still holds its handle, and no timer is pending
C29_WitnessExpired ==
    /\ timers = {}
    /\ nextRefreshTimeout # 0
    /\ InFlight(inflight, "refresh") >= 1

====
